---- MODULE Spec2Model ----
(***************************************************************************)
(* Konpeito profiling runtime (lib/konpeito/codegen/profile_runtime.c).    *)
(*                                                                         *)
(* The instrumented program calls konpeito_profile_enter at function start *)
(* and konpeito_profile_exit at function end.  The runtime keeps a global  *)
(* per-function table (g_profiles), a global table of stack samples        *)
(* (g_stack_samples) and a per-thread call stack.                           *)
(*                                                                         *)
(* Spec       : one thread makes arbitrary hook calls (any id, matched or  *)
(*              mismatched exits); every call is one step.                 *)
(* SpecNested : one thread runs a program whose calls are well nested:     *)
(*              it calls enter when it calls a function and exit with the  *)
(*              same id when that function returns.                        *)
(* SpecConc   : two threads; every read and every write of the shared      *)
(*              tables is a step of its own, so that the unsynchronised    *)
(*              accesses of different threads interleave.                  *)
(*                                                                         *)
(* uint64_t arithmetic is modelled without wrap-around: every time value   *)
(* of the model is far below 2^64.                                         *)
(***************************************************************************)
EXTENDS Integers, Sequences, FiniteSets, TLC

\* ------------------------------------------------------------------ sizes
\* The three table sizes of the source, scaled down.
MAX_FUNCTIONS == 2
MAX_CALL_DEPTH == 2
MAX_STACK_SAMPLES == 2

\* Largest clock reading (in microseconds) and largest number of hook calls
\* explored.
MaxClock == 80
MaxCalls == 7
\* Largest number of hook calls explored by SpecConc.
MaxConcCalls == 7

\* sizeof(g_output_path) and sizeof(folded_path), scaled down.
OUTPUT_PATH_SIZE == 16

\* Largest number of hook calls explored by SpecRace.
MaxRaceCalls == 5

\* Largest number of hook calls explored by SpecLife.
MaxLifeCalls == 6

\* Largest number of hook calls explored by SpecFinRace.
MaxFinRaceCalls == 4

\* Spec and SpecNested run the hooks on one thread.
Threads == {"T1", "T2"}
SeqThreads == {"T1"}

\* const char* values: the null pointer and two function names.
NULL == "(null)"
FuncNames == {"A", "B"}
NameArgs == {NULL} \cup FuncNames

\* Paths are sequences of characters.  A null output_path is NullPath; the
\* initial content of g_output_path ("konpeito_profile.json") is shortened
\* with the buffer.
NullPath == <<NULL>>
DotJson == <<".", "j", "s", "o", "n">>
DotFolded == <<".", "f", "o", "l", "d", "e", "d">>
DefaultOutputPath == <<"k">> \o DotJson
OutputPathArgs == {NullPath, <<"p">> \o DotJson}

\* The name the compiler resolved for a function id: Spec and SpecNested pass
\* this one with every enter.
CompiledName(f) == IF f = 0 THEN "A" ELSE "B"

\* Arguments the instrumented program may pass: ids below, inside and above
\* the table, and two values for num_functions (one above MAX_FUNCTIONS).
FuncIdArgs == -1 .. MAX_FUNCTIONS
NumFunctionsArgs == {MAX_FUNCTIONS - 1, 10}

\* get_time_ns counts nanoseconds; the reports divide by 1000 and by 10^6.
\* The clock of the model advances in whole microseconds.
Us(n) == n * 1000

\* Amounts by which the monotonic clock may have advanced between two reads.
Ticks == {0, Us(30), Us(50)}
ConcTicks == {0, Us(30)}

\* The instrumented program nests at most one call deeper than the runtime
\* can track.
MaxNest == MAX_CALL_DEPTH + 1

VARIABLES
    g_profiles,            \* [0..MAX_FUNCTIONS-1 -> FunctionProfile]
    g_num_functions,
    g_initialized,
    g_stack_samples,       \* [0..MAX_STACK_SAMPLES-1 -> StackSample]
    g_num_stack_samples,
    tls_call_stack,        \* per thread: the live CallStackEntry's, bottom first
    tls_stack_depth,       \* per thread
    tls_current_stack,     \* per thread: the live function ids, bottom first
    now,                   \* the monotonic clock
    pc,                    \* per thread: where in enter/exit it is (SpecConc)
    loc,                   \* per thread: the locals of the running hook
    oob,                   \* an index outside its array has been used
    g_output_path,         \* the path of the JSON report
    atexit_handlers,       \* registrations of konpeito_profile_finalize
    exit_pending,          \* -1 while the program runs; handlers still to run
    files,                 \* the file system: path -> content written
    stderr,                \* the messages printed to the diagnostic stream
    \* history variables (observe the calls, never read by the runtime)
    lastCall,              \* the hook call that ended last and what it did
    lastName,              \* the name passed to the last enter call
    nCalls,                \* hook calls made so far
    enterCalls,            \* per function id: enter calls since initialize
    overDepth,             \* an enter since initialize found the stack full
    inits,                 \* initialize calls that passed the guard
    callerStack,           \* per thread: the open calls of a well-nested program
    shapeTime,             \* stack shape -> sum of the elapsed values recorded for it
    scen,                  \* progress of the A/B nesting scenario
    fopenResult,           \* whether the fopen calls of the last finalize succeeded
    finPassed              \* finalize calls that found g_initialized set

vars == <<g_profiles, g_num_functions, g_initialized, g_stack_samples,
          g_num_stack_samples, tls_call_stack, tls_stack_depth,
          tls_current_stack, now, pc, loc, oob, lastCall, lastName, nCalls,
          enterCalls, overDepth, inits, callerStack, shapeTime, scen,
          g_output_path, atexit_handlers, exit_pending, files, stderr,
          fopenResult, finPassed>>

global_vars == <<g_profiles, g_num_functions, g_initialized, g_stack_samples,
                 g_num_stack_samples>>
tls_vars == <<tls_call_stack, tls_stack_depth, tls_current_stack>>
conc_vars == <<pc, loc, oob>>
\* What initialize, finalize and the exit of the program work on.
life_vars == <<g_output_path, atexit_handlers, exit_pending, files, stderr,
               fopenResult, finPassed>>
hist_vars == <<lastCall, lastName, enterCalls, overDepth, inits, callerStack, shapeTime,
               scen>>

FuncIds == 0 .. MAX_FUNCTIONS - 1
SampleIdx == 0 .. MAX_STACK_SAMPLES - 1
DepthIdx == 0 .. MAX_CALL_DEPTH - 1

\* ----------------------------------------------------------- data types
\* FunctionProfile and StackSample as static storage zero-initialises them.
ZeroProfile == [name |-> NULL, call_count |-> 0, total_time_ns |-> 0]
ZeroSample == [func_ids |-> [j \in DepthIdx |-> 0], depth |-> 0, time_ns |-> 0]

CallStackEntry(func_id, entry_time) ==
    [func_id |-> func_id, entry_time |-> entry_time]

Min(S) == CHOOSE x \in S : \A y \in S : x <= y

\* ------------------------------------------------- stack sample aggregator
\* The comparison of the scan: same depth and the same ids elementwise.
\* `stack` is the thread's shape vector, bottom first (stack[j+1] is
\* tls_current_stack[j]).
StackMatches_DepthOnly(sample, stack, depth) == sample.depth = depth

StackMatches_InnermostOnly(sample, stack, depth) ==
    /\ sample.depth > 0
    /\ depth > 0
    /\ sample.func_ids[sample.depth - 1] = stack[depth]

StackMatches(sample, stack, depth) ==
    /\ sample.depth = depth
    /\ \A j \in 0 .. depth - 1 : sample.func_ids[j] = stack[j + 1]

\* The linear search: the first index whose sample matches, or -1.
ScanStackSamples(samples, num, stack, depth) ==
    LET hits == {i \in 0 .. num - 1 : StackMatches(samples[i], stack, depth)}
    IN  IF hits = {} THEN -1 ELSE Min(hits)

\* The capacity test that guards the creation of a sample.
SampleTableFull_OffByOne(num) == num > MAX_STACK_SAMPLES

SampleTableFull(num) == num >= MAX_STACK_SAMPLES

\* The sample written into a fresh slot: depth, the first `depth` ids, time 0.
NewSample(old, stack, depth) ==
    [func_ids |-> [j \in DepthIdx |->
                      IF j < depth THEN stack[j + 1] ELSE old.func_ids[j]],
     depth |-> depth,
     time_ns |-> 0]

\* find_or_create_stack_sample: the index found or created (-1 when the table
\* is full) with the table and the count as it leaves them.
find_or_create_stack_sample(samples, num, stack, depth) ==
    LET found == ScanStackSamples(samples, num, stack, depth)
    IN  IF found >= 0
        THEN [idx |-> found, samples |-> samples, num |-> num]
        ELSE IF SampleTableFull(num)
        THEN [idx |-> -1, samples |-> samples, num |-> num]
        ELSE [idx |-> num,
              samples |-> [samples EXCEPT ![num] = NewSample(@, stack, depth)],
              num |-> num + 1]

\* record_stack_time for a thread whose shape vector is `stack`.
record_stack_time(samples, num, stack, depth, time_ns) ==
    IF depth <= 0
    THEN [idx |-> -1, samples |-> samples, num |-> num]
    ELSE LET r == find_or_create_stack_sample(samples, num, stack, depth)
         IN  IF r.idx >= 0
             THEN [r EXCEPT !.samples[r.idx].time_ns = @ + time_ns]
             ELSE r

\* --------------------------------------------------------------- the hooks
EnterAccepted_NoInitCheck(t, func_id) ==
    /\ ~(func_id < 0 \/ func_id >= MAX_FUNCTIONS)
    /\ ~(tls_stack_depth[t] >= MAX_CALL_DEPTH)

EnterAccepted_NoDepthCheck(t, func_id) ==
    /\ g_initialized = 1
    /\ ~(func_id < 0 \/ func_id >= MAX_FUNCTIONS)

\* The three early returns of konpeito_profile_enter.
EnterAccepted(t, func_id) ==
    /\ g_initialized = 1
    /\ ~(func_id < 0 \/ func_id >= MAX_FUNCTIONS)
    /\ ~(tls_stack_depth[t] >= MAX_CALL_DEPTH)

ExitAccepted_NoRangeCheck(t, func_id) ==
    /\ g_initialized = 1
    /\ ~(tls_stack_depth[t] <= 0)

\* The three early returns of konpeito_profile_exit.
ExitAccepted(t, func_id) ==
    /\ g_initialized = 1
    /\ ~(func_id < 0 \/ func_id >= MAX_FUNCTIONS)
    /\ ~(tls_stack_depth[t] <= 0)

ExitMatches_Unverified(t, func_id) == TRUE

\* "Verify we're exiting the right function".
ExitMatches(t, func_id) ==
    tls_call_stack[t][tls_stack_depth[t]].func_id = func_id

Elapsed_SinceOutermost(t, exit_time) ==
    exit_time - tls_call_stack[t][1].entry_time

\* elapsed = exit_time - entry_time of the top frame.
Elapsed(t, exit_time) ==
    exit_time - tls_call_stack[t][tls_stack_depth[t]].entry_time

RecordedDepth_AfterPop(t) == tls_stack_depth[t] - 1

\* The depth konpeito_profile_exit passes to record_stack_time: the frame
\* of the exiting call is still on the stack.
RecordedDepth(t) == tls_stack_depth[t]

PushFrame_Shared(stacks, t, entry) ==
    [u \in Threads |-> Append(stacks[u], entry)]

\* The push of konpeito_profile_enter on a thread-local array: the entry
\* goes on the stack of the calling thread.
PushFrame(stacks, t, entry) == [stacks EXCEPT ![t] = Append(@, entry)]

ShapeElement_OfCaller(t, func_id) ==
    IF tls_stack_depth[t] > 0
    THEN tls_call_stack[t][tls_stack_depth[t]].func_id
    ELSE func_id

\* The id konpeito_profile_enter writes into the shape vector at the
\* current depth: the id it has just written into the call stack.
ShapeElement(t, func_id) == func_id

CallCountAfterEnter_Twice(count) == count + 2

CallCountAfterEnter_FirstOnly(count) == IF count = 0 THEN 1 ELSE count

\* call_count++
CallCountAfterEnter(count) == count + 1

\* The name stored by an accepted enter: "only first call matters".
RegisteredName(old, func_name) == IF old = NULL THEN func_name ELSE old

\* g_num_functions as konpeito_profile_init sets it.
ClampNumFunctions(num_functions) ==
    IF num_functions < MAX_FUNCTIONS THEN num_functions ELSE MAX_FUNCTIONS

\* The shape vector as a sequence of ids, for the history variables.
Shape(t) == tls_current_stack[t]

NoCall == [op |-> "none", thread |-> "-", func_id |-> -1, outcome |-> "-",
           elapsed |-> 0, idx |-> -2]
Call(op, t, func_id, outcome, elapsed, idx) ==
    [op |-> op, thread |-> t, func_id |-> func_id, outcome |-> outcome,
     elapsed |-> elapsed, idx |-> idx]

\* ---- the A/B scenario: initialize(10); enter(A); enter(B); exit(B) 50 units
\* after B was entered; exit(A) 80 units after A was entered; all on ScenThread
\* and with no other call in between.
ScenThread == "T1"
ScenIds == <<0, 1>>
ScenA == ScenIds[1]
ScenB == ScenIds[2]
ScenDead == [stage |-> -1, tA |-> 0, tB |-> 0]
ScenStart == [stage |-> 0, tA |-> 0, tB |-> 0]

ScenAfterInit(num_functions) ==
    IF scen.stage = 0 /\ num_functions = 10 THEN [scen EXCEPT !.stage = 1]
    ELSE ScenDead

ScenAfterEnter(t, func_id, func_name, time) ==
    IF t = ScenThread /\ scen.stage = 1 /\ func_id = ScenA /\ func_name = "A"
    THEN [scen EXCEPT !.stage = 2, !.tA = time]
    ELSE IF t = ScenThread /\ scen.stage = 2 /\ func_id = ScenB /\ func_name = "B"
    THEN [scen EXCEPT !.stage = 3, !.tB = time]
    ELSE ScenDead

ScenAfterExit(t, func_id, time) ==
    IF t = ScenThread /\ scen.stage = 3 /\ func_id = ScenB /\ time = scen.tB + Us(50)
    THEN [scen EXCEPT !.stage = 4]
    ELSE IF t = ScenThread /\ scen.stage = 4 /\ func_id = ScenA /\ time = scen.tA + Us(80)
    THEN [scen EXCEPT !.stage = 5]
    ELSE ScenDead

\* ---- the open calls of the instrumented program, innermost last
CallerPush(t, func_id, pushed, time) ==
    [callerStack EXCEPT ![t] = Append(@,
        [func_id |-> func_id, pushed |-> pushed, entry_time |-> time])]

CallerTop(t) == callerStack[t][Len(callerStack[t])]

CallerPop(t) == [callerStack EXCEPT ![t] = SubSeq(@, 1, Len(@) - 1)]

AddShapeTime(shape, elapsed) ==
    IF shape \in DOMAIN shapeTime
    THEN [shapeTime EXCEPT ![shape] = @ + elapsed]
    ELSE (shape :> elapsed) @@ shapeTime

\* The locals of a hook call: the id passed, the value loaded by a
\* read-modify-write, the elapsed time and the sample index.
NoLocals == [func_id |-> -1, tmp |-> 0, elapsed |-> 0, idx |-> -1]

\* ------------------------------------------------------------- the reports
\* strstr(folded_path, ".json"): the position of the first occurrence, or 0.
FirstDotJson(path) ==
    LET hits == {i \in 1 .. Len(path) - Len(DotJson) + 1 :
                    SubSeq(path, i, i + Len(DotJson) - 1) = DotJson}
    IN  IF hits = {} THEN 0 ELSE Min(hits)

\* The path of the folded file: strcpy(ext, ".folded") at the occurrence, or
\* strncat of ".folded" limited to the room left in the buffer.
FoldedPath(path) ==
    LET i == FirstDotJson(path)
        room == OUTPUT_PATH_SIZE - Len(path) - 1
    IN  IF i > 0
        THEN SubSeq(path, 1, i - 1) \o DotFolded
        ELSE path \o SubSeq(DotFolded, 1,
                             IF room < Len(DotFolded) THEN room
                             ELSE Len(DotFolded))

\* strcpy has no limit: the derived path with its terminator may not fit.
FoldedPathOverflows(path) ==
    /\ FirstDotJson(path) > 0
    /\ FirstDotJson(path) - 1 + Len(DotFolded) + 1 > OUTPUT_PATH_SIZE

\* The names of a sample's ids, outermost first, as written: a ';' before
\* every named entry but the one at position 0, nothing for an unnamed entry.
RECURSIVE FoldedStack(_, _, _)
FoldedStack(sample, profiles, j) ==
    IF j >= sample.depth THEN <<>>
    ELSE LET name == profiles[sample.func_ids[j]].name
             here == IF name = NULL THEN <<>>
                     ELSE IF j > 0 THEN <<";", name>> ELSE <<name>>
         IN  here \o FoldedStack(sample, profiles, j + 1)

SampleCount_NoMinimum(time_ns) == time_ns \div 1000

\* The sample count of a line: microseconds, at least 1.
SampleCount(time_ns) ==
    LET samples == time_ns \div 1000
    IN  IF samples = 0 THEN 1 ELSE samples

\* The lines of the folded file: samples i, i+1, ... below num with a time.
RECURSIVE FoldedLines(_, _, _, _)
FoldedLines(samples, num, profiles, i) ==
    IF i >= num THEN <<>>
    ELSE LET rest == FoldedLines(samples, num, profiles, i + 1)
         IN  IF samples[i].time_ns = 0 THEN rest
             ELSE <<[stack |-> FoldedStack(samples[i], profiles, 0),
                     count |-> SampleCount(samples[i].time_ns)]>> \o rest

FoldedReport ==
    [kind |-> "folded",
     lines |-> FoldedLines(g_stack_samples, g_num_stack_samples, g_profiles, 0)]

RECURSIVE TotalTime_AllEntries(_, _, _)
TotalTime_AllEntries(profiles, num_functions, i) ==
    IF i >= num_functions THEN 0
    ELSE profiles[i].total_time_ns
         + TotalTime_AllEntries(profiles, num_functions, i + 1)

\* total_time: the times of the named functions below g_num_functions.
RECURSIVE TotalTime(_, _, _)
TotalTime(profiles, num_functions, i) ==
    IF i >= num_functions THEN 0
    ELSE (IF profiles[i].name # NULL THEN profiles[i].total_time_ns ELSE 0)
         + TotalTime(profiles, num_functions, i + 1)

\* a / b rounded to the nearest integer, an exact tie to the even one, as
\* printf rounds the last digit it prints (b > 0).
RoundDiv(a, b) ==
    LET q == a \div b
        r == a % b
    IN  IF 2 * r > b \/ (2 * r = b /\ q % 2 = 1) THEN q + 1 ELSE q

\* "%.3f" of time_ns / 1000000.0, in thousandths of a millisecond.
TimeMs(time_ns) == RoundDiv(time_ns, 1000)

\* "%.2f" of the percentage, in hundredths of a percent.
Percent(time_ns, total_time) ==
    IF total_time > 0 THEN RoundDiv(time_ns * 10000, total_time) ELSE 0

\* The time of function i that the JSON report and the summary print.
ReportedTime_WithOpenCalls(profiles, i) ==
    profiles[i].total_time_ns
    + (IF \E t \in Threads : \E k \in 1 .. Len(tls_call_stack[t]) :
              tls_call_stack[t][k].func_id = i
       THEN 1000 ELSE 0)

ReportedTime(profiles, i) == profiles[i].total_time_ns

\* The entries of the "functions" array: the named functions i, i+1, ...
RECURSIVE JsonFunctions(_, _, _, _)
JsonFunctions(profiles, num_functions, total_time, i) ==
    IF i >= num_functions THEN <<>>
    ELSE LET rest == JsonFunctions(profiles, num_functions, total_time, i + 1)
         IN  IF profiles[i].name = NULL THEN rest
             ELSE <<[name |-> profiles[i].name,
                     calls |-> profiles[i].call_count,
                     time_ms |-> TimeMs(ReportedTime(profiles, i)),
                     percent |-> Percent(ReportedTime(profiles, i),
                                         total_time)]>> \o rest

JsonReport ==
    LET total_time == TotalTime(g_profiles, g_num_functions, 0)
    IN  [kind |-> "json",
         functions |-> JsonFunctions(g_profiles, g_num_functions,
                                     total_time, 0),
         total_time_ms |-> TimeMs(total_time)]

\* fopen(path, "w") followed by the writes and fclose.
WriteFile(fs, path, content) ==
    [q \in DOMAIN fs \cup {path} |-> IF q = path THEN content ELSE fs[q]]

\* The messages on stderr.
WarnFolded == "Warning: Could not write flame graph"
FoldedWritten == "Flame graph data written"
WarnJson == "Warning: Could not write profile"
ProfileSummary == "Konpeito Profile Summary"

write_flame_graph_folded_WithSummary(fs, err, opened) ==
    [files |-> WriteFile(fs, FoldedPath(g_output_path), FoldedReport),
     stderr |-> err \o <<FoldedWritten, ProfileSummary>>]

write_flame_graph_folded_NeverOpened(fs, err, opened) ==
    [files |-> fs, stderr |-> Append(err, WarnFolded)]

\* write_flame_graph_folded(): fs and err after it; `opened` is whether
\* fopen succeeded.
write_flame_graph_folded(fs, err, opened) ==
    IF ~opened
    THEN [files |-> fs, stderr |-> Append(err, WarnFolded)]
    ELSE [files |-> WriteFile(fs, FoldedPath(g_output_path), FoldedReport),
          stderr |-> Append(err, FoldedWritten)]

\* The rest of konpeito_profile_finalize: the JSON report, then the summary;
\* a failed fopen prints the warning and returns.
WriteProfileJson(fs, err, opened) ==
    IF ~opened
    THEN [files |-> fs, stderr |-> Append(err, WarnJson)]
    ELSE [files |-> WriteFile(fs, g_output_path, JsonReport),
          stderr |-> Append(err, ProfileSummary)]

FinalizeAccepted_Unguarded == TRUE

FinalizeAccepted_Never == FALSE

\* The guard of konpeito_profile_finalize.
FinalizeAccepted == g_initialized # 0

\* The path initialize leaves in g_output_path.
OutputPathAfterInit(output_path) ==
    IF output_path # NullPath /\ Len(output_path) < OUTPUT_PATH_SIZE
    THEN output_path
    ELSE g_output_path

\* ------------------------------------------------------------------- Init
\* Program start: static storage, no thread has called anything.
Init ==
    /\ g_profiles = [i \in FuncIds |-> ZeroProfile]
    /\ g_num_functions = 0
    /\ g_initialized = 0
    /\ g_stack_samples = [i \in SampleIdx |-> ZeroSample]
    /\ g_num_stack_samples = 0
    /\ tls_call_stack = [t \in Threads |-> <<>>]
    /\ tls_stack_depth = [t \in Threads |-> 0]
    /\ tls_current_stack = [t \in Threads |-> <<>>]
    /\ now = 0
    /\ pc = [t \in Threads |-> "idle"]
    /\ loc = [t \in Threads |-> NoLocals]
    /\ oob = FALSE
    /\ lastCall = NoCall
    /\ lastName = NULL
    /\ nCalls = 0
    /\ enterCalls = [i \in FuncIds |-> 0]
    /\ overDepth = FALSE
    /\ inits = 0
    /\ callerStack = [t \in Threads |-> <<>>]
    /\ shapeTime = <<>>
    /\ scen = ScenStart
    /\ g_output_path = DefaultOutputPath
    /\ atexit_handlers = 0
    /\ exit_pending = -1
    /\ files = <<>>
    /\ stderr = <<>>
    /\ fopenResult = [folded |-> TRUE, json |-> TRUE]
    /\ finPassed = 0

\* konpeito_profile_init(num_functions, output_path)
Initialize(num_functions, output_path) ==
    /\ nCalls < MaxCalls
    /\ nCalls' = nCalls + 1
    /\ IF g_initialized # 0
       THEN /\ UNCHANGED <<global_vars, enterCalls, overDepth, inits,
                           g_output_path, atexit_handlers>>
            /\ lastCall' = Call("init", "-", -1, "noop", 0, -2)
       ELSE /\ g_num_functions' = ClampNumFunctions(num_functions)
            /\ g_output_path' = OutputPathAfterInit(output_path)
            /\ g_profiles' = [i \in FuncIds |-> ZeroProfile]
            /\ g_initialized' = 1
            /\ atexit_handlers' = atexit_handlers + 1
            /\ UNCHANGED <<g_stack_samples, g_num_stack_samples>>
            /\ enterCalls' = [i \in FuncIds |-> 0]
            /\ overDepth' = FALSE
            /\ inits' = inits + 1
            /\ lastCall' = Call("init", "-", -1, "done", 0, -2)
    /\ scen' = ScenAfterInit(num_functions)
    /\ UNCHANGED <<tls_vars, now, shapeTime, exit_pending, files, stderr,
                   fopenResult, finPassed, lastName>>

\* konpeito_profile_enter(func_id, func_name) on thread t; the clock has
\* advanced by d when get_time_ns reads it.
Enter(t, func_id, func_name, d) ==
    /\ nCalls < MaxCalls
    /\ nCalls' = nCalls + 1
    /\ IF EnterAccepted(t, func_id)
       THEN /\ now + d <= Us(MaxClock)
            /\ now' = now + d
            /\ g_profiles' = [g_profiles EXCEPT
                   ![func_id].name = RegisteredName(@, func_name),
                   ![func_id].call_count = CallCountAfterEnter(@)]
            /\ tls_call_stack' = PushFrame(tls_call_stack, t,
                                           CallStackEntry(func_id, now'))
            /\ tls_current_stack' = PushFrame(tls_current_stack, t,
                                              ShapeElement(t, func_id))
            /\ tls_stack_depth' = [tls_stack_depth EXCEPT ![t] = @ + 1]
            /\ UNCHANGED <<g_num_functions, g_initialized, g_stack_samples,
                           g_num_stack_samples>>
            /\ lastCall' = Call("enter", t, func_id, "pushed", 0, -2)
            /\ scen' = ScenAfterEnter(t, func_id, func_name, now')
            /\ UNCHANGED overDepth
       ELSE /\ d = 0
            /\ UNCHANGED <<global_vars, tls_vars, now>>
            /\ lastCall' = Call("enter", t, func_id, "noop", 0, -2)
            /\ overDepth' = (overDepth \/ (g_initialized = 1
                                /\ func_id \in FuncIds
                                /\ tls_stack_depth[t] >= MAX_CALL_DEPTH))
            /\ scen' = ScenDead
    /\ enterCalls' = IF func_id \in FuncIds
                     THEN [enterCalls EXCEPT ![func_id] = @ + 1]
                     ELSE enterCalls
    /\ lastName' = func_name
    /\ UNCHANGED <<shapeTime, inits, life_vars>>

\* konpeito_profile_exit(func_id) on thread t.
Exit(t, func_id, d) ==
    /\ nCalls < MaxCalls
    /\ nCalls' = nCalls + 1
    /\ IF ExitAccepted(t, func_id)
       THEN /\ now + d <= Us(MaxClock)
            /\ now' = now + d
            /\ IF ExitMatches(t, func_id)
               THEN LET elapsed == Elapsed(t, now')
                        r == record_stack_time(g_stack_samples,
                                 g_num_stack_samples, tls_current_stack[t],
                                 RecordedDepth(t), elapsed)
                    IN  /\ g_profiles' = [g_profiles EXCEPT
                               ![func_id].total_time_ns = @ + elapsed]
                        /\ g_stack_samples' = r.samples
                        /\ g_num_stack_samples' = r.num
                        /\ lastCall' = Call("exit", t, func_id, "matched",
                                            elapsed, r.idx)
                        /\ shapeTime' = AddShapeTime(Shape(t), elapsed)
               ELSE /\ UNCHANGED <<g_profiles, g_stack_samples,
                                   g_num_stack_samples, shapeTime>>
                    /\ lastCall' = Call("exit", t, func_id, "mismatched", 0, -2)
            /\ tls_stack_depth' = [tls_stack_depth EXCEPT ![t] = @ - 1]
            /\ tls_call_stack' = [tls_call_stack EXCEPT
                   ![t] = SubSeq(@, 1, Len(@) - 1)]
            /\ tls_current_stack' = [tls_current_stack EXCEPT
                   ![t] = SubSeq(@, 1, Len(@) - 1)]
            /\ UNCHANGED <<g_num_functions, g_initialized>>
            /\ scen' = ScenAfterExit(t, func_id, now')
       ELSE /\ d = 0
            /\ UNCHANGED <<global_vars, tls_vars, now, shapeTime>>
            /\ lastCall' = Call("exit", t, func_id, "noop", 0, -2)
            /\ scen' = ScenDead
    /\ UNCHANGED <<enterCalls, overDepth, inits, life_vars, lastName>>

\* konpeito_profile_finalize(): the guard, the flag, the folded file, the
\* JSON report and the summary.  folded_opened and json_opened are the
\* outcomes of the two fopen calls.
Finalize(folded_opened, json_opened) ==
    /\ nCalls < MaxCalls
    /\ nCalls' = nCalls + 1
    /\ IF FinalizeAccepted
       THEN LET folded == write_flame_graph_folded(files, stderr,
                                                   folded_opened)
                json == WriteProfileJson(folded.files, folded.stderr,
                                         json_opened)
            IN  /\ g_initialized' = 0
                /\ files' = json.files
                /\ stderr' = json.stderr
                /\ oob' = (oob \/ FoldedPathOverflows(g_output_path))
                /\ fopenResult' = [folded |-> folded_opened,
                                   json |-> json_opened]
                /\ lastCall' = Call("finalize", "-", -1, "done", 0, -2)
       ELSE /\ folded_opened /\ json_opened    \* no fopen is made
            /\ UNCHANGED <<g_initialized, files, stderr, oob, fopenResult>>
            /\ lastCall' = Call("finalize", "-", -1, "noop", 0, -2)
    /\ finPassed' = IF g_initialized # 0 THEN finPassed + 1 ELSE finPassed
    /\ scen' = ScenDead
    /\ UNCHANGED <<g_profiles, g_num_functions, g_stack_samples,
                   g_num_stack_samples, tls_vars, now, enterCalls,
                   overDepth, inits, shapeTime, g_output_path,
                   atexit_handlers, lastName>>

\* ---- Spec: arbitrary hook calls on one thread
HookInitialize(n) ==
    Initialize(n, NullPath) /\ UNCHANGED <<callerStack, conc_vars>>
HookEnter(t, f, nm, d) ==
    Enter(t, f, nm, d) /\ UNCHANGED <<callerStack, conc_vars>>
HookExit(t, f, d) == Exit(t, f, d) /\ UNCHANGED <<callerStack, conc_vars>>
HookFinalize ==
    Finalize(TRUE, TRUE) /\ UNCHANGED <<callerStack, pc, loc, exit_pending>>

Next ==
    \/ \E n \in NumFunctionsArgs : HookInitialize(n)
    \/ \E t \in SeqThreads, f \in FuncIdArgs, d \in Ticks :
           HookEnter(t, f, CompiledName(f), d)
    \/ \E t \in SeqThreads, f \in FuncIdArgs, d \in Ticks : HookExit(t, f, d)
    \/ HookFinalize

Spec == Init /\ [][Next]_vars

\* ---- SpecHooks: the same calls with a clock of fewer values.
NextHooks ==
    \/ \E n \in NumFunctionsArgs : HookInitialize(n)
    \/ \E t \in SeqThreads, f \in FuncIdArgs, d \in ConcTicks :
           HookEnter(t, f, CompiledName(f), d)
    \/ \E t \in SeqThreads, f \in FuncIdArgs, d \in ConcTicks :
           HookExit(t, f, d)
    \/ HookFinalize

SpecHooks == Init /\ [][NextHooks]_vars

\* ---- SpecNested: a program with well-nested calls on one thread.  A call
\* of function f runs enter(f, name) first; the return of the innermost open
\* call runs exit with that call's id.
ProgramCall(t, f, nm, d) ==
    /\ Len(callerStack[t]) < MaxNest
    /\ Enter(t, f, nm, d)
    /\ callerStack' = CallerPush(t, f, EnterAccepted(t, f), now')
    /\ UNCHANGED conc_vars

ProgramReturn(t, d) ==
    /\ Len(callerStack[t]) > 0
    /\ Exit(t, CallerTop(t).func_id, d)
    /\ callerStack' = CallerPop(t)
    /\ UNCHANGED conc_vars

NextNested ==
    \/ \E n \in NumFunctionsArgs : HookInitialize(n)
    \/ \E t \in SeqThreads, f \in FuncIdArgs, d \in ConcTicks :
           ProgramCall(t, f, CompiledName(f), d)
    \/ \E t \in SeqThreads, d \in ConcTicks : ProgramReturn(t, d)
    \/ HookFinalize

SpecNested == Init /\ [][NextNested]_vars

\* ---- SpecNames: one thread passes any name, also none, with an enter.
NextNames ==
    \/ HookInitialize(10)
    \/ \E t \in SeqThreads, f \in FuncIds, nm \in NameArgs :
           HookEnter(t, f, nm, 0)
    \/ \E t \in SeqThreads, f \in FuncIds : HookExit(t, f, 0)

SpecNames == Init /\ [][NextNames]_vars

\* ---- SpecThreads: two threads make whole hook calls in any order.
NextThreads ==
    /\ \/ \E n \in NumFunctionsArgs : HookInitialize(n)
       \/ \E t \in Threads, f \in FuncIds, d \in ConcTicks :
              HookEnter(t, f, CompiledName(f), d)
       \/ \E t \in Threads, f \in FuncIds, d \in ConcTicks : HookExit(t, f, d)
       \/ HookFinalize
    /\ nCalls' <= MaxRaceCalls

SpecThreads == Init /\ [][NextThreads]_vars

\* ---- SpecFolded: the folded writer as a function of the tables.  The run
\* starts from the tables an earlier run left: the samples persist over a
\* second initialize, which zeroes the function table only; every function
\* was then entered once, with a name or without, and its frame was popped
\* by an exit carrying another id.  The stored times are nanosecond values
\* on both sides of one microsecond.
DrawnShapes == {<<0>>, <<1>>, <<0, 1>>, <<1, 0>>, <<1, 1>>}
SampleTimes == {0, 999, 1000, 2500}
DrawnSamples ==
    {[NewSample(ZeroSample, sh, Len(sh)) EXCEPT !.time_ns = tm] :
        sh \in DrawnShapes, tm \in SampleTimes}

InitFolded ==
    /\ g_initialized = 1
    /\ g_num_functions = MAX_FUNCTIONS
    /\ g_profiles \in [FuncIds -> {[ZeroProfile EXCEPT !.name = nm,
                                                       !.call_count = 1] :
                                       nm \in NameArgs}]
    /\ g_num_stack_samples \in 0 .. MAX_STACK_SAMPLES
    /\ g_stack_samples \in
          {tb \in [SampleIdx -> DrawnSamples \cup {ZeroSample}] :
              /\ \A i \in SampleIdx :
                     (i >= g_num_stack_samples) <=> (tb[i] = ZeroSample)
              /\ \A i, j \in SampleIdx :
                     (i < j /\ j < g_num_stack_samples)
                     => (tb[i].depth # tb[j].depth
                         \/ tb[i].func_ids # tb[j].func_ids)}
    /\ tls_call_stack = [t \in Threads |-> <<>>]
    /\ tls_stack_depth = [t \in Threads |-> 0]
    /\ tls_current_stack = [t \in Threads |-> <<>>]
    /\ now = 0
    /\ pc = [t \in Threads |-> "idle"]
    /\ loc = [t \in Threads |-> NoLocals]
    /\ oob = FALSE
    /\ lastCall = NoCall
    /\ lastName = NULL
    /\ nCalls = 0
    /\ enterCalls = [i \in FuncIds |-> 1]
    /\ overDepth = FALSE
    /\ inits = 2
    /\ callerStack = [t \in Threads |-> <<>>]
    /\ shapeTime = <<>>
    /\ scen = ScenDead
    /\ g_output_path = DefaultOutputPath
    /\ atexit_handlers = 2
    /\ exit_pending = -1
    /\ files = <<>>
    /\ stderr = <<>>
    /\ fopenResult = [folded |-> TRUE, json |-> TRUE]
    /\ finPassed = 0

NextFolded == HookFinalize

SpecFolded == InitFolded /\ [][NextFolded]_vars

\* ---- SpecJson: the JSON writer as a function of the tables.  The run
\* starts after an initialize and one top-level call of some functions, each
\* entered with a name or without and exited after its cumulative time; the
\* sample table holds their one-element shapes in id order, as far as it
\* has room.
FunctionTimes == {0, 1499, 2500}
CalledProfiles ==
    {[name |-> nm, call_count |-> 1, total_time_ns |-> tm] :
        nm \in NameArgs, tm \in FunctionTimes}

\* The samples of the top-level calls of the functions in `called`.
SamplesOfCalls(profiles, called) ==
    LET ids == {f \in called :
                   Cardinality({g \in called : g < f}) < MAX_STACK_SAMPLES}
    IN  [i \in SampleIdx |->
            IF \E f \in ids : Cardinality({g \in ids : g < f}) = i
            THEN LET f == CHOOSE f \in ids :
                             Cardinality({g \in ids : g < f}) = i
                 IN  [NewSample(ZeroSample, <<f>>, 1)
                         EXCEPT !.time_ns = profiles[f].total_time_ns]
            ELSE ZeroSample]

InitJson ==
    /\ g_initialized = 1
    /\ g_num_functions \in {MAX_FUNCTIONS - 1, MAX_FUNCTIONS}
    /\ g_profiles \in [FuncIds -> CalledProfiles \cup {ZeroProfile}]
    /\ LET called == {f \in FuncIds : g_profiles[f].call_count > 0}
       IN  /\ g_stack_samples = SamplesOfCalls(g_profiles, called)
           /\ g_num_stack_samples = Min({Cardinality(called),
                                         MAX_STACK_SAMPLES})
    /\ tls_call_stack = [t \in Threads |-> <<>>]
    /\ tls_stack_depth = [t \in Threads |-> 0]
    /\ tls_current_stack = [t \in Threads |-> <<>>]
    /\ now = Us(MaxClock)
    /\ pc = [t \in Threads |-> "idle"]
    /\ loc = [t \in Threads |-> NoLocals]
    /\ oob = FALSE
    /\ lastCall = NoCall
    /\ lastName = NULL
    /\ nCalls = 0
    /\ enterCalls = [i \in FuncIds |-> g_profiles[i].call_count]
    /\ overDepth = FALSE
    /\ inits = 1
    /\ callerStack = [t \in Threads |-> <<>>]
    /\ shapeTime = <<>>
    /\ scen = ScenDead
    /\ g_output_path = DefaultOutputPath
    /\ atexit_handlers = 1
    /\ exit_pending = -1
    /\ files = <<>>
    /\ stderr = <<>>
    /\ fopenResult = [folded |-> TRUE, json |-> TRUE]
    /\ finPassed = 0

NextJson == HookFinalize

SpecJson == InitJson /\ [][NextJson]_vars

\* ---- SpecLife: the life of the process on one thread.  The program passes
\* an output path or none, either fopen of a finalize may fail, and the
\* program ends with exit(), which runs the registered handlers.
LifeTicks == {0, Us(30)}

LifeInitialize(n, path) ==
    /\ exit_pending = -1
    /\ Initialize(n, path)
    /\ UNCHANGED <<callerStack, conc_vars>>

LifeFinalize(folded_opened, json_opened) ==
    /\ exit_pending = -1
    /\ Finalize(folded_opened, json_opened)
    /\ UNCHANGED <<callerStack, pc, loc, exit_pending>>

\* exit(): from now on only the atexit handlers run.
ProgramExit ==
    /\ exit_pending = -1
    /\ exit_pending' = atexit_handlers
    /\ lastCall' = Call("process_exit", "-", -1, "-", 0, -2)
    /\ UNCHANGED <<global_vars, tls_vars, now, conc_vars, nCalls, enterCalls,
                   overDepth, inits, callerStack, shapeTime, scen,
                   g_output_path, atexit_handlers, files, stderr,
                   fopenResult, finPassed, lastName>>

\* One registered handler runs konpeito_profile_finalize.
RunAtExit(folded_opened, json_opened) ==
    /\ exit_pending > 0
    /\ exit_pending' = exit_pending - 1
    /\ Finalize(folded_opened, json_opened)
    /\ UNCHANGED <<callerStack, pc, loc>>

NextLife ==
    /\ \/ \E path \in OutputPathArgs : LifeInitialize(10, path)
       \/ \E t \in SeqThreads, f \in FuncIds, d \in LifeTicks :
              exit_pending = -1 /\ HookEnter(t, f, CompiledName(f), d)
       \/ \E t \in SeqThreads, f \in FuncIds, d \in LifeTicks :
              exit_pending = -1 /\ HookExit(t, f, d)
       \/ \E fo, jo \in BOOLEAN : LifeFinalize(fo, jo)
       \/ ProgramExit
       \/ \E fo, jo \in BOOLEAN : RunAtExit(fo, jo)
    /\ nCalls' <= MaxLifeCalls

SpecLife == Init /\ [][NextLife]_vars

\* ---- SpecPath: the program passes output paths with ".json" at the end,
\* in the middle, twice or not at all, and calls function 0.
PathArgs ==
    {NullPath,
     <<"a">>,
     <<"a">> \o DotJson,
     <<"a">> \o DotJson \o <<"b">>,
     <<"a">> \o DotJson \o DotJson}

NextPath ==
    \/ \E path \in PathArgs : LifeInitialize(10, path)
    \/ \E t \in SeqThreads, d \in LifeTicks :
           HookEnter(t, 0, CompiledName(0), d)
    \/ \E t \in SeqThreads, d \in LifeTicks : HookExit(t, 0, d)
    \/ \E fo, jo \in BOOLEAN : LifeFinalize(fo, jo)

SpecPath == Init /\ [][NextPath]_vars

\* ---- SpecLongPath: the program passes output paths that fill the path
\* buffer or nearly fill it: ending in ".json" with 1, 2 or 3 bytes of the
\* buffer to spare, without ".json" at the greatest accepted length, and
\* one byte too long to be accepted.
PathOfLength(n) == [i \in 1 .. n |-> "a"]
JsonPathOfLength(n) == PathOfLength(n - Len(DotJson)) \o DotJson
LongPathArgs ==
    {JsonPathOfLength(OUTPUT_PATH_SIZE - 1),
     JsonPathOfLength(OUTPUT_PATH_SIZE - 2),
     JsonPathOfLength(OUTPUT_PATH_SIZE - 3),
     PathOfLength(OUTPUT_PATH_SIZE - 1),
     JsonPathOfLength(OUTPUT_PATH_SIZE)}

NextLongPath ==
    \/ \E path \in LongPathArgs : LifeInitialize(10, path)
    \/ \E t \in SeqThreads, d \in LifeTicks :
           HookEnter(t, 0, CompiledName(0), d)
    \/ \E t \in SeqThreads, d \in LifeTicks : HookExit(t, 0, d)
    \/ \E fo, jo \in BOOLEAN : LifeFinalize(fo, jo)

SpecLongPath == Init /\ [][NextLongPath]_vars

\* ---- SpecConc: enter and exit of two threads, one shared access per step.
\* Thread-local work (the per-thread stack, the clock read) is done in the
\* step of the shared access that precedes it.
SetPc(t, label) == pc' = [pc EXCEPT ![t] = label]
Return(t) == /\ pc' = [pc EXCEPT ![t] = "idle"]
             /\ loc' = [loc EXCEPT ![t] = NoLocals]
Pop(t) ==
    /\ tls_stack_depth' = [tls_stack_depth EXCEPT ![t] = @ - 1]
    /\ tls_call_stack' = [tls_call_stack EXCEPT ![t] = SubSeq(@, 1, Len(@) - 1)]
    /\ tls_current_stack' = [tls_current_stack EXCEPT
           ![t] = SubSeq(@, 1, Len(@) - 1)]

ConcInitialize(n) ==
    /\ \A t \in Threads : pc[t] = "idle"
    /\ nCalls < MaxConcCalls
    /\ Initialize(n, NullPath)
    /\ UNCHANGED <<callerStack, conc_vars>>

\* enter, lines 147-154: the early returns and the registration of the name.
Enter_Check(t, func_id, func_name) ==
    /\ UNCHANGED life_vars
    /\ pc[t] = "idle"
    /\ nCalls < MaxConcCalls
    /\ nCalls' = nCalls + 1
    /\ enterCalls' = IF func_id \in FuncIds
                     THEN [enterCalls EXCEPT ![func_id] = @ + 1]
                     ELSE enterCalls
    /\ IF EnterAccepted(t, func_id)
       THEN /\ g_profiles' = [g_profiles EXCEPT
                   ![func_id].name = RegisteredName(@, func_name)]
            /\ loc' = [loc EXCEPT ![t].func_id = func_id]
            /\ SetPc(t, "enter_load_count")
       ELSE UNCHANGED <<g_profiles, loc, pc>>
    /\ lastName' = func_name
    /\ UNCHANGED <<g_num_functions, g_initialized, g_stack_samples,
                   g_num_stack_samples, tls_vars, now, oob, lastCall,
                   overDepth, inits, callerStack, shapeTime, scen>>

\* enter, line 157: call_count++ reads the counter ...
Enter_LoadCount(t) ==
    /\ UNCHANGED life_vars
    /\ pc[t] = "enter_load_count"
    /\ loc' = [loc EXCEPT ![t].tmp = g_profiles[loc[t].func_id].call_count]
    /\ SetPc(t, "enter_store_count")
    /\ UNCHANGED <<global_vars, tls_vars, now, oob, nCalls, hist_vars>>

\* ... and writes it back; lines 160-166 then push the frame.
Enter_StoreCount(t, d) ==
    /\ UNCHANGED life_vars
    /\ pc[t] = "enter_store_count"
    /\ now + d <= Us(MaxClock)
    /\ now' = now + d
    /\ g_profiles' = [g_profiles EXCEPT
           ![loc[t].func_id].call_count = CallCountAfterEnter(loc[t].tmp)]
    /\ tls_call_stack' = [tls_call_stack EXCEPT
           ![t] = Append(@, CallStackEntry(loc[t].func_id, now'))]
    /\ tls_current_stack' = [tls_current_stack EXCEPT
           ![t] = Append(@, ShapeElement(t, loc[t].func_id))]
    /\ tls_stack_depth' = [tls_stack_depth EXCEPT ![t] = @ + 1]
    /\ Return(t)
    /\ UNCHANGED <<g_num_functions, g_initialized, g_stack_samples,
                   g_num_stack_samples, oob, nCalls, hist_vars>>

\* exit, lines 171-180 and 188: the early returns, the clock read, the check
\* of the top frame; a mismatched exit pops and returns.
Exit_Check(t, func_id, d) ==
    /\ UNCHANGED life_vars
    /\ pc[t] = "idle"
    /\ nCalls < MaxConcCalls
    /\ nCalls' = nCalls + 1
    /\ IF ExitAccepted(t, func_id)
       THEN /\ now + d <= Us(MaxClock)
            /\ now' = now + d
            /\ IF ExitMatches(t, func_id)
               THEN /\ loc' = [loc EXCEPT ![t].func_id = func_id,
                                          ![t].elapsed = Elapsed(t, now')]
                    /\ SetPc(t, "exit_load_time")
                    /\ shapeTime' = AddShapeTime(Shape(t),
                           now' - tls_call_stack[t][tls_stack_depth[t]].entry_time)
                    /\ UNCHANGED tls_vars
               ELSE /\ Pop(t)
                    /\ UNCHANGED <<loc, pc, shapeTime>>
       ELSE /\ d = 0
            /\ UNCHANGED <<now, tls_vars, loc, pc, shapeTime>>
    /\ UNCHANGED <<global_vars, oob, lastCall, lastName, enterCalls,
                   overDepth, inits, callerStack, scen>>

\* exit, line 181: total_time_ns += elapsed reads the total ...
Exit_LoadTime(t) ==
    /\ UNCHANGED life_vars
    /\ pc[t] = "exit_load_time"
    /\ loc' = [loc EXCEPT ![t].tmp = g_profiles[loc[t].func_id].total_time_ns]
    /\ SetPc(t, "exit_store_time")
    /\ UNCHANGED <<global_vars, tls_vars, now, oob, nCalls, hist_vars>>

\* ... and writes it back.
Exit_StoreTime(t) ==
    /\ UNCHANGED life_vars
    /\ pc[t] = "exit_store_time"
    /\ g_profiles' = [g_profiles EXCEPT
           ![loc[t].func_id].total_time_ns = loc[t].tmp + loc[t].elapsed]
    /\ SetPc(t, "sample_scan")
    /\ UNCHANGED <<g_num_functions, g_initialized, g_stack_samples,
                   g_num_stack_samples, tls_vars, now, loc, oob, nCalls,
                   hist_vars>>

ScanMayStart_Locked(t) ==
    \A u \in Threads \ {t} :
        pc[u] \notin {"sample_check_capacity", "sample_load_count",
                      "sample_store_count", "sample_write_depth",
                      "sample_write_ids", "sample_load_time",
                      "sample_store_time", "fin_clear", "fin_folded",
                      "fin_json", "fin_json_entries", "fin_summary"}

\* find_or_create_stack_sample takes no lock and waits for nothing before
\* its scan, whatever the other threads are doing.
ScanMayStart(t) == TRUE

\* find_or_create_stack_sample, lines 83-94: the scan.  A count above the
\* capacity makes the scan read past the array.
Sample_Scan(t) ==
    /\ UNCHANGED life_vars
    /\ pc[t] = "sample_scan"
    /\ ScanMayStart(t)
    /\ LET num == IF g_num_stack_samples > MAX_STACK_SAMPLES
                  THEN MAX_STACK_SAMPLES ELSE g_num_stack_samples
           found == ScanStackSamples(g_stack_samples, num,
                                     tls_current_stack[t], tls_stack_depth[t])
       IN  /\ oob' = (oob \/ g_num_stack_samples > MAX_STACK_SAMPLES)
           /\ loc' = [loc EXCEPT ![t].idx = found]
           /\ SetPc(t, IF found >= 0 THEN "sample_load_time"
                       ELSE "sample_check_capacity")
    /\ UNCHANGED <<global_vars, tls_vars, now, nCalls, hist_vars>>

\* line 97: the capacity test; a full table ends the exit (line 188 pops).
Sample_CheckCapacity(t) ==
    /\ UNCHANGED life_vars
    /\ pc[t] = "sample_check_capacity"
    /\ IF SampleTableFull(g_num_stack_samples)
       THEN Pop(t) /\ Return(t)
       ELSE SetPc(t, "sample_load_count") /\ UNCHANGED <<tls_vars, loc>>
    /\ UNCHANGED <<global_vars, now, oob, nCalls, hist_vars>>

\* line 99: idx = g_num_stack_samples++ reads the count ...
Sample_LoadCount(t) ==
    /\ UNCHANGED life_vars
    /\ pc[t] = "sample_load_count"
    /\ loc' = [loc EXCEPT ![t].idx = g_num_stack_samples]
    /\ SetPc(t, "sample_store_count")
    /\ UNCHANGED <<global_vars, tls_vars, now, oob, nCalls, hist_vars>>

\* ... and writes it back.
Sample_StoreCount(t) ==
    /\ UNCHANGED life_vars
    /\ pc[t] = "sample_store_count"
    /\ g_num_stack_samples' = loc[t].idx + 1
    /\ SetPc(t, "sample_write_depth")
    /\ UNCHANGED <<g_profiles, g_num_functions, g_initialized,
                   g_stack_samples, tls_vars, now, loc, oob, nCalls,
                   hist_vars>>

\* A write to g_stack_samples[idx]: inside the array it changes the slot; an
\* index outside the array is recorded in oob (what the stray write hits is
\* outside the variables of this model).
WriteSample(idx, sample) ==
    IF idx \in SampleIdx
    THEN /\ g_stack_samples' = [g_stack_samples EXCEPT ![idx] = sample]
         /\ UNCHANGED oob
    ELSE /\ UNCHANGED g_stack_samples
         /\ oob' = TRUE
SlotAt(idx) == IF idx \in SampleIdx THEN g_stack_samples[idx] ELSE ZeroSample

\* line 100
Sample_WriteDepth(t) ==
    /\ UNCHANGED life_vars
    /\ pc[t] = "sample_write_depth"
    /\ WriteSample(loc[t].idx,
                   [SlotAt(loc[t].idx) EXCEPT !.depth = tls_stack_depth[t]])
    /\ SetPc(t, "sample_write_ids")
    /\ UNCHANGED <<g_profiles, g_num_functions, g_initialized,
                   g_num_stack_samples, tls_vars, now, loc, nCalls, hist_vars>>

\* lines 101-104: the ids, then time_ns = 0
Sample_WriteIds(t) ==
    /\ UNCHANGED life_vars
    /\ pc[t] = "sample_write_ids"
    /\ WriteSample(loc[t].idx,
                   [NewSample(SlotAt(loc[t].idx), tls_current_stack[t],
                              tls_stack_depth[t])
                       EXCEPT !.depth = SlotAt(loc[t].idx).depth])
    /\ SetPc(t, "sample_load_time")
    /\ UNCHANGED <<g_profiles, g_num_functions, g_initialized,
                   g_num_stack_samples, tls_vars, now, loc, nCalls, hist_vars>>

\* record_stack_time, line 114: time_ns += elapsed reads the sample ...
Sample_LoadTime(t) ==
    /\ UNCHANGED life_vars
    /\ pc[t] = "sample_load_time"
    /\ loc' = [loc EXCEPT ![t].tmp = SlotAt(loc[t].idx).time_ns]
    /\ oob' = (oob \/ loc[t].idx \notin SampleIdx)
    /\ SetPc(t, "sample_store_time")
    /\ UNCHANGED <<global_vars, tls_vars, now, nCalls, hist_vars>>

\* ... and writes it back; line 188 pops and exit returns.
Sample_StoreTime(t) ==
    /\ UNCHANGED life_vars
    /\ pc[t] = "sample_store_time"
    /\ WriteSample(loc[t].idx,
                   [SlotAt(loc[t].idx) EXCEPT
                       !.time_ns = loc[t].tmp + loc[t].elapsed])
    /\ Pop(t)
    /\ Return(t)
    /\ UNCHANGED <<g_profiles, g_num_functions, g_initialized,
                   g_num_stack_samples, now, nCalls, hist_vars>>

\* The programs of SpecConc are correctly instrumented: initialize(10) and,
\* per thread, exit with the id of the call that returns.  Their clock
\* advances while a function body runs, that is before the read of an exit.
ReturningId(t) == tls_call_stack[t][tls_stack_depth[t]].func_id

NextConc ==
    \/ ConcInitialize(10)
    \/ \E t \in Threads, f \in FuncIds : Enter_Check(t, f, CompiledName(f))
    \/ \E t \in Threads : Enter_LoadCount(t)
    \/ \E t \in Threads : Enter_StoreCount(t, 0)
    \/ \E t \in Threads, d \in ConcTicks :
           tls_stack_depth[t] > 0 /\ Exit_Check(t, ReturningId(t), d)
    \/ \E t \in Threads : Exit_LoadTime(t)
    \/ \E t \in Threads : Exit_StoreTime(t)
    \/ \E t \in Threads : Sample_Scan(t)
    \/ \E t \in Threads : Sample_CheckCapacity(t)
    \/ \E t \in Threads : Sample_LoadCount(t)
    \/ \E t \in Threads : Sample_StoreCount(t)
    \/ \E t \in Threads : Sample_WriteDepth(t)
    \/ \E t \in Threads : Sample_WriteIds(t)
    \/ \E t \in Threads : Sample_LoadTime(t)
    \/ \E t \in Threads : Sample_StoreTime(t)

SpecConc == Init /\ [][NextConc]_vars

\* ---- SpecRace: the steps of SpecConc in shorter runs.
NextRace == NextConc /\ nCalls' <= MaxRaceCalls

SpecRace == Init /\ [][NextRace]_vars

\* ---- SpecFin: finalize called by two threads, one shared access per step:
\* the read of g_initialized, its clearing, the folded file, the JSON report
\* with the summary.  The files can be opened.  Thread T1 also makes enter
\* and exit calls between its finalize calls.
Fin_Check(t) ==
    /\ pc[t] = "idle"
    /\ nCalls < MaxCalls
    /\ nCalls' = nCalls + 1
    /\ finPassed' = IF g_initialized # 0 THEN finPassed + 1 ELSE finPassed
    /\ IF FinalizeAccepted
       THEN SetPc(t, "fin_clear") /\ UNCHANGED lastCall
       ELSE /\ UNCHANGED pc
            /\ lastCall' = Call("finalize", t, -1, "noop", 0, -2)
    /\ UNCHANGED <<global_vars, tls_vars, now, loc, oob, enterCalls,
                   overDepth, inits, callerStack, shapeTime, scen,
                   g_output_path, atexit_handlers, exit_pending, files,
                   stderr, fopenResult, lastName>>

\* line 258
Fin_Clear(t) ==
    /\ pc[t] = "fin_clear"
    /\ g_initialized' = 0
    /\ SetPc(t, "fin_folded")
    /\ UNCHANGED <<g_profiles, g_num_functions, g_stack_samples,
                   g_num_stack_samples, tls_vars, now, loc, oob, nCalls,
                   hist_vars, life_vars>>

\* line 261
Fin_WriteFolded(t, opened) ==
    /\ pc[t] = "fin_folded"
    /\ LET folded == write_flame_graph_folded(files, stderr, opened)
       IN  files' = folded.files /\ stderr' = folded.stderr
    /\ oob' = (oob \/ FoldedPathOverflows(g_output_path))
    /\ fopenResult' = [fopenResult EXCEPT !.folded = opened]
    /\ SetPc(t, "fin_json")
    /\ UNCHANGED <<global_vars, tls_vars, now, loc, nCalls, hist_vars,
                   g_output_path, atexit_handlers, exit_pending, finPassed>>

\* lines 263-306: the JSON report from fopen to fclose; a failed fopen
\* prints the warning and ends the call.
Fin_WriteJson(t, opened) ==
    /\ pc[t] = "fin_json"
    /\ LET json == WriteProfileJson(files, stderr, opened)
       IN  /\ files' = json.files
           /\ stderr' = IF opened THEN stderr ELSE json.stderr
    /\ fopenResult' = [fopenResult EXCEPT !.json = opened]
    /\ IF opened
       THEN SetPc(t, "fin_summary") /\ UNCHANGED lastCall
       ELSE /\ SetPc(t, "idle")
            /\ lastCall' = Call("finalize", t, -1, "done", 0, -2)
    /\ UNCHANGED <<global_vars, tls_vars, now, loc, oob, nCalls, enterCalls,
                   overDepth, inits, callerStack, shapeTime, scen,
                   g_output_path, atexit_handlers, exit_pending, finPassed,
                   lastName>>

\* lines 308-340: the summary on stderr
Fin_PrintSummary(t) ==
    /\ pc[t] = "fin_summary"
    /\ stderr' = WriteProfileJson(files, stderr, TRUE).stderr
    /\ SetPc(t, "idle")
    /\ lastCall' = Call("finalize", t, -1, "done", 0, -2)
    /\ UNCHANGED <<global_vars, tls_vars, now, loc, oob, nCalls, enterCalls,
                   overDepth, inits, callerStack, shapeTime, scen,
                   g_output_path, atexit_handlers, exit_pending, finPassed,
                   lastName, files, fopenResult>>

NextFin ==
    \/ ConcInitialize(10)
    \/ \E t \in SeqThreads, f \in FuncIds :
           pc[t] = "idle" /\ HookEnter(t, f, CompiledName(f), 0)
    \/ \E t \in SeqThreads, f \in FuncIds, d \in LifeTicks :
           pc[t] = "idle" /\ HookExit(t, f, d)
    \/ \E t \in Threads : Fin_Check(t)
    \/ \E t \in Threads : Fin_Clear(t)
    \/ \E t \in Threads : Fin_WriteFolded(t, TRUE)
    \/ \E t \in Threads : Fin_WriteJson(t, TRUE)
    \/ \E t \in Threads : Fin_PrintSummary(t)

SpecFin == Init /\ [][NextFin]_vars

\* ---- SpecFinRace: the enter and exit steps of SpecConc together with the
\* steps of finalize, on two threads.  The JSON report is two steps here:
\* the loop that adds up total_time, and the loop that writes the entries
\* with the function table as it is then.  The files can be opened.
JsonReportWith(total_time) ==
    [kind |-> "json",
     functions |-> JsonFunctions(g_profiles, g_num_functions, total_time, 0),
     total_time_ms |-> TimeMs(total_time)]

\* lines 263-275: fopen and the loop over total_time_ns
Fin_JsonTotal(t) ==
    /\ pc[t] = "fin_json"
    /\ loc' = [loc EXCEPT
           ![t].tmp = TotalTime(g_profiles, g_num_functions, 0)]
    /\ fopenResult' = [fopenResult EXCEPT !.json = TRUE]
    /\ SetPc(t, "fin_json_entries")
    /\ UNCHANGED <<global_vars, tls_vars, now, oob, nCalls, hist_vars,
                   g_output_path, atexit_handlers, exit_pending, files,
                   stderr, finPassed>>

\* lines 278-306: the entries, the total and fclose
Fin_JsonEntries(t) ==
    /\ pc[t] = "fin_json_entries"
    /\ files' = WriteFile(files, g_output_path, JsonReportWith(loc[t].tmp))
    /\ SetPc(t, "fin_summary")
    /\ loc' = [loc EXCEPT ![t] = NoLocals]
    /\ UNCHANGED <<global_vars, tls_vars, now, oob, nCalls, hist_vars,
                   g_output_path, atexit_handlers, exit_pending, stderr,
                   fopenResult, finPassed>>

NextFinRace ==
    /\ \/ NextRace
       \/ \E t \in Threads : Fin_Check(t)
       \/ \E t \in Threads : Fin_Clear(t)
       \/ \E t \in Threads : Fin_WriteFolded(t, TRUE)
       \/ \E t \in Threads : Fin_JsonTotal(t)
       \/ \E t \in Threads : Fin_JsonEntries(t)
       \/ \E t \in Threads : Fin_PrintSummary(t)
    /\ nCalls' <= MaxFinRaceCalls

SpecFinRace == Init /\ [][NextFinRace]_vars

\* ================================================================ claims
\* ---- helpers of the claims
\* The ids of a stored sample as a sequence, outermost first.
ShapeOfSample(sample) == [j \in 1 .. sample.depth |-> sample.func_ids[j - 1]]

\* The indices below num whose sample has the given shape.
SamplesWith(samples, num, shape) ==
    {i \in 0 .. num - 1 : ShapeOfSample(samples[i]) = shape}

\* The time accumulated for a shape (0 when the table holds no such sample).
TimeOfShape(samples, num, shape) ==
    LET S == SamplesWith(samples, num, shape)
    IN  IF S = {} THEN 0 ELSE samples[Min(S)].time_ns

\* This step is the call exit(f) of thread t / enter(f) of thread t.
IsExitStep(t, f) ==
    lastCall'.op = "exit" /\ lastCall'.thread = t /\ lastCall'.func_id = f
IsEnterStep(t, f) ==
    lastCall'.op = "enter" /\ lastCall'.thread = t /\ lastCall'.func_id = f
TopFrame(t) == tls_call_stack[t][tls_stack_depth[t]]

\* The step leaves the tables of the runtime / the stack of thread t alone.
TablesUnchanged ==
    /\ g_profiles' = g_profiles
    /\ g_num_functions' = g_num_functions
    /\ g_initialized' = g_initialized
    /\ g_stack_samples' = g_stack_samples
    /\ g_num_stack_samples' = g_num_stack_samples
StackUnchanged(t) ==
    /\ tls_call_stack'[t] = tls_call_stack[t]
    /\ tls_current_stack'[t] = tls_current_stack[t]
    /\ tls_stack_depth'[t] = tls_stack_depth[t]

\* The pushed entries among the open calls of thread t's program.
NumPushed(t) ==
    Cardinality({k \in 1 .. Len(callerStack[t]) : callerStack[t][k].pushed})

\* ---- C1 (as stated): while the profiler is initialized, after any
\* well-nested sequence of calls the call count of every function equals the
\* number of enter invocations made for it since initialize.
C1_CallCountEqualsEnters ==
    g_initialized = 1 =>
        \A f \in FuncIds : g_profiles[f].call_count = enterCalls[f]

\* C1 (amended): the same, for sequences in which no enter was made with the
\* thread's stack already at the maximum call depth.
C1_CallCountEqualsEntersBelowMaxDepth ==
    (g_initialized = 1 /\ ~overDepth) =>
        \A f \in FuncIds : g_profiles[f].call_count = enterCalls[f]

C1_Witness ==
    /\ g_initialized = 1 /\ ~overDepth
    /\ enterCalls[0] = 2 /\ enterCalls[1] = 1
    /\ callerStack["T1"] = <<>> /\ lastCall.op = "exit"

\* ---- C2: after initialize(10), enter(A), enter(B), exit(B) 50 units after
\* B was entered and exit(A) 80 units after A was entered: A has calls 1 and
\* time 80, B has calls 1 and time 50, and the table holds exactly the two
\* samples [A,B] with time 50 and [A] with time 30.
C2_NestingScenario ==
    scen.stage = 5 =>
        /\ g_profiles[ScenA].call_count = 1
        /\ g_profiles[ScenA].total_time_ns = Us(80)
        /\ g_profiles[ScenB].call_count = 1
        /\ g_profiles[ScenB].total_time_ns = Us(50)
        /\ g_num_stack_samples = 2
        /\ SamplesWith(g_stack_samples, 2, <<ScenA, ScenB>>) # {}
        /\ SamplesWith(g_stack_samples, 2, <<ScenA>>) # {}
        /\ TimeOfShape(g_stack_samples, 2, <<ScenA, ScenB>>) = Us(50)
        /\ TimeOfShape(g_stack_samples, 2, <<ScenA>>) = Us(30)

\* ---- C3: in a well-nested program (initialized once, not finalized) every
\* open call whose enter was pushed is, when it is the innermost open call,
\* the frame on top of the thread's stack, with its own entry time, so that
\* its exit pops that frame and attributes its own elapsed time; calls
\* nested beyond the maximum depth do not disturb this.
C3_PushedFrameStaysOnTop ==
    \A t \in Threads :
        (/\ g_initialized = 1 /\ inits = 1
         /\ Len(callerStack[t]) > 0
         /\ CallerTop(t).pushed)
        => /\ tls_stack_depth[t] = NumPushed(t)
           /\ TopFrame(t) = CallStackEntry(CallerTop(t).func_id,
                                           CallerTop(t).entry_time)

\* ---- C4: a mismatched exit (initialized, id in range, stack not empty, id
\* different from the id on top) adds no time to any function, changes no
\* stack sample and decreases the thread's depth by exactly one.
C4_MismatchedExitOnlyPops ==
    [][\A t \in Threads, f \in FuncIds :
        (/\ IsExitStep(t, f)
         /\ g_initialized = 1
         /\ tls_stack_depth[t] > 0
         /\ TopFrame(t).func_id # f)
        => /\ \A g \in FuncIds :
                 g_profiles'[g].total_time_ns = g_profiles[g].total_time_ns
           /\ g_stack_samples' = g_stack_samples
           /\ g_num_stack_samples' = g_num_stack_samples
           /\ tls_stack_depth'[t] = tls_stack_depth[t] - 1]_vars

C4_Witness ==
    /\ lastCall.op = "exit" /\ lastCall.outcome = "mismatched"
    /\ lastCall.func_id = 1
    /\ g_profiles[0].total_time_ns > 0
    /\ g_num_stack_samples > 0
    /\ tls_stack_depth["T1"] = 1

\* A step that is exit(f) of thread t directly after the accepted enter(f)
\* of the same thread: a single enter/exit pair.  The clock was last read by
\* that enter, so the injected duration is now' - now.
IsPairExit(t, f) ==
    /\ IsExitStep(t, f)
    /\ lastCall.op = "enter" /\ lastCall.thread = t /\ lastCall.func_id = f
    /\ lastCall.outcome = "pushed"
    /\ g_initialized = 1

\* ---- C5 (as stated): for a single enter(f)/exit(f) pair the cumulative
\* time of f increases by exactly the injected duration and the stack sample
\* of the thread's shape (ending in f) receives exactly the same amount.
C5_PairTimeToFunctionAndSample ==
    [][\A t \in Threads, f \in FuncIds :
        IsPairExit(t, f)
        => /\ g_profiles'[f].total_time_ns
                 = g_profiles[f].total_time_ns + (now' - now)
           /\ TimeOfShape(g_stack_samples', g_num_stack_samples', Shape(t))
                 = TimeOfShape(g_stack_samples, g_num_stack_samples, Shape(t))
                   + (now' - now)]_vars

\* C5 (amended): the cumulative time of f increases by exactly the injected
\* duration; the sample of the thread's shape receives the same amount when
\* that shape is already in the table or the table is not full, and no
\* sample changes when the table is full and the shape is new.
C5_PairTimeUnlessTableFull ==
    [][\A t \in Threads, f \in FuncIds :
        IsPairExit(t, f)
        => /\ g_profiles'[f].total_time_ns
                 = g_profiles[f].total_time_ns + (now' - now)
           /\ IF \/ SamplesWith(g_stack_samples, g_num_stack_samples,
                                Shape(t)) # {}
                 \/ g_num_stack_samples < MAX_STACK_SAMPLES
              THEN /\ SamplesWith(g_stack_samples', g_num_stack_samples',
                                  Shape(t)) # {}
                   /\ TimeOfShape(g_stack_samples', g_num_stack_samples',
                                  Shape(t))
                        = TimeOfShape(g_stack_samples, g_num_stack_samples,
                                      Shape(t)) + (now' - now)
              ELSE /\ g_stack_samples' = g_stack_samples
                   /\ g_num_stack_samples' = g_num_stack_samples]_vars

\* initialize, enter(f), exit(f) 30 units later: f has 30, its sample has 30.
C5_Witness ==
    /\ nCalls = 3
    /\ lastCall.op = "exit" /\ lastCall.outcome = "matched"
    /\ lastCall.elapsed = Us(30)
    /\ g_profiles[lastCall.func_id].total_time_ns = Us(30)
    /\ g_num_stack_samples = 1
    /\ g_stack_samples[0].time_ns = Us(30)

\* ---- C6: under any interleaving of the enter and exit calls of the
\* threads every index used on the function table, the sample table and the
\* per-thread stacks is inside its array: no access is out of bounds, the
\* index of a newly created sample is below the sample capacity and the
\* sample count never exceeds the capacity.
C6_IndicesInBounds ==
    /\ ~oob
    /\ g_num_stack_samples <= MAX_STACK_SAMPLES
    /\ \A t \in Threads :
        /\ pc[t] \in {"sample_store_count", "sample_write_depth",
                      "sample_write_ids"}
              => loc[t].idx \in SampleIdx
        /\ pc[t] \in {"sample_load_time", "sample_store_time"}
              => loc[t].idx \in SampleIdx
        /\ pc[t] # "idle" => loc[t].func_id \in FuncIds
        /\ tls_stack_depth[t] \in 0 .. MAX_CALL_DEPTH

\* ---- C7: from one state to the next, under any interleaving of the enter
\* and exit calls of the threads, no call count, no cumulative time and no
\* accumulated sample time decreases.
C7_CountersNeverDecrease ==
    [][(g_initialized = 1 /\ g_initialized' = 1)
        => /\ \A f \in FuncIds :
                 /\ g_profiles'[f].call_count >= g_profiles[f].call_count
                 /\ g_profiles'[f].total_time_ns
                       >= g_profiles[f].total_time_ns
           /\ \A i \in SampleIdx :
                 g_stack_samples'[i].time_ns >= g_stack_samples[i].time_ns
       ]_vars

\* ---- C8: on one thread, all matched exits with the same shape accumulate
\* into one sample: no two samples have the same shape, every sample is the
\* shape of some completed exit, and every completed shape either has its
\* sample, holding the sum of the elapsed values of its exits, or has none
\* because the table is full.
C8_OneSamplePerShape ==
    /\ \A i, j \in 0 .. g_num_stack_samples - 1 :
           i # j => ShapeOfSample(g_stack_samples[i])
                        # ShapeOfSample(g_stack_samples[j])
    /\ \A i \in 0 .. g_num_stack_samples - 1 :
           ShapeOfSample(g_stack_samples[i]) \in DOMAIN shapeTime
    /\ \A shape \in DOMAIN shapeTime :
           LET S == SamplesWith(g_stack_samples, g_num_stack_samples, shape)
           IN  IF S = {}
               THEN g_num_stack_samples = MAX_STACK_SAMPLES
               ELSE \A i \in S : g_stack_samples[i].time_ns = shapeTime[shape]

\* Two exits with the same shape and the same elapsed value 30: one sample, 60.
C8_Witness ==
    /\ nCalls = 5
    /\ g_num_stack_samples = 1
    /\ g_stack_samples[0].time_ns = Us(60)
    /\ lastCall.op = "exit" /\ lastCall.outcome = "matched"
    /\ lastCall.elapsed = Us(30)
    /\ lastCall.idx = 0

\* ---- C9: with the sample table full, a matched exit still adds its
\* elapsed time to the function and pops the frame; when its shape is not in
\* the table the table is left completely unchanged, and when its shape is
\* in the table the elapsed time is added to that sample.
C9_FullTableDropsNewShape ==
    [][\A t \in Threads, f \in FuncIds :
        (/\ IsExitStep(t, f)
         /\ g_initialized = 1
         /\ tls_stack_depth[t] > 0
         /\ TopFrame(t).func_id = f
         /\ g_num_stack_samples >= MAX_STACK_SAMPLES)
        => LET e == now' - TopFrame(t).entry_time
               S == SamplesWith(g_stack_samples, g_num_stack_samples, Shape(t))
           IN  /\ g_profiles'[f].total_time_ns
                     = g_profiles[f].total_time_ns + e
               /\ tls_stack_depth'[t] = tls_stack_depth[t] - 1
               /\ g_num_stack_samples' = g_num_stack_samples
               /\ g_stack_samples' =
                     IF S = {} THEN g_stack_samples
                     ELSE [g_stack_samples EXCEPT ![Min(S)].time_ns = @ + e]
       ]_vars

\* A matched exit with a positive elapsed time whose shape was dropped.
C9_Witness ==
    /\ lastCall.op = "exit" /\ lastCall.outcome = "matched"
    /\ lastCall.idx = -1
    /\ lastCall.elapsed > 0
    /\ g_num_stack_samples = MAX_STACK_SAMPLES
    /\ g_profiles[lastCall.func_id].total_time_ns >= lastCall.elapsed

\* ---- C10: the call stack depth of every thread is between 0 and the
\* maximum call depth, whatever calls the thread makes.
C10_DepthWithinBounds ==
    \A t \in Threads :
        /\ 0 <= tls_stack_depth[t]
        /\ tls_stack_depth[t] <= MAX_CALL_DEPTH
        /\ Len(tls_call_stack[t]) = tls_stack_depth[t]
        /\ Len(tls_current_stack[t]) = tls_stack_depth[t]

\* An enter refused at the maximum depth, after an exit on an empty stack.
C10_Witness ==
    /\ tls_stack_depth["T1"] = MAX_CALL_DEPTH
    /\ lastCall.op = "enter" /\ lastCall.outcome = "noop"
    /\ lastCall.func_id \in FuncIds
    /\ g_initialized = 1

\* ---- C11: an enter made while the profiler is not initialized, or with an
\* id outside the function table, or with the thread's stack at the maximum
\* depth registers no name, changes no call count (nor anything else in the
\* tables) and leaves the thread's call stack, shape vector and depth as
\* they were.
C11_RefusedEnterChangesNothing ==
    [][\A t \in Threads, f \in FuncIdArgs :
        (/\ IsEnterStep(t, f)
         /\ \/ g_initialized = 0
            \/ f < 0 \/ f >= MAX_FUNCTIONS
            \/ tls_stack_depth[t] >= MAX_CALL_DEPTH)
        => TablesUnchanged /\ StackUnchanged(t)]_vars

\* An enter with the id just above the table, made inside an open call.
C11_Witness ==
    /\ lastCall.op = "enter" /\ lastCall.outcome = "noop"
    /\ lastCall.func_id = MAX_FUNCTIONS
    /\ g_initialized = 1
    /\ tls_stack_depth["T1"] = 1
    /\ g_profiles[0].call_count = 1 /\ g_profiles[0].name = "A"

\* ---- C12: an exit made while the profiler is not initialized, or with an
\* id outside the function table, or with the thread's stack empty changes
\* no cumulative time and no stack sample and does not decrement the depth.
C12_RefusedExitChangesNothing ==
    [][\A t \in Threads, f \in FuncIdArgs :
        (/\ IsExitStep(t, f)
         /\ \/ g_initialized = 0
            \/ f < 0 \/ f >= MAX_FUNCTIONS
            \/ tls_stack_depth[t] <= 0)
        => TablesUnchanged /\ StackUnchanged(t)]_vars

\* enter(-1) was dropped inside an open call and exit(-1) has now returned:
\* the open call's frame is still the only one.
C12_Witness ==
    /\ lastCall.op = "exit" /\ lastCall.outcome = "noop"
    /\ lastCall.func_id = -1
    /\ g_initialized = 1
    /\ tls_stack_depth["T1"] = 1
    /\ enterCalls[0] = 1 /\ nCalls = 4

\* ---- C13: while the profiler is initialized the valid ids are
\* 0 .. g_num_functions - 1, where g_num_functions is
\* min(num_functions, MAX_FUNCTIONS) of the initialize call: an enter or an
\* exit with an id below 0 or at least g_num_functions changes no state.
C13_RangeFixedAtInitialize ==
    [][\A t \in Threads, f \in FuncIdArgs :
        (/\ IsEnterStep(t, f) \/ IsExitStep(t, f)
         /\ g_initialized = 1
         /\ f < 0 \/ f >= g_num_functions)
        => TablesUnchanged /\ StackUnchanged(t)]_vars

\* ---- helpers of the claims about initialize, finalize and the reports
IsInitStep == lastCall'.op = "init"
IsFinalizeStep == lastCall'.op = "finalize"
\* The step is a finalize that passed the guard and produced the reports.
IsReportingStep == IsFinalizeStep /\ lastCall'.outcome = "done"

\* The number of times the reports were produced: every run of the report
\* code starts with one of the two messages about the folded file.
ReportRuns ==
    Cardinality({i \in DOMAIN stderr : stderr[i] \in {WarnFolded, FoldedWritten}})

\* What the step appended to stderr.
Printed == SubSeq(stderr', Len(stderr) + 1, Len(stderr'))

\* The sum of val[x] over the x in S.
RECURSIVE SumOver(_, _)
SumOver(S, val) ==
    IF S = {} THEN 0
    ELSE LET x == CHOOSE y \in S : TRUE
         IN  val[x] + SumOver(S \ {x}, val)

\* The sum of the elapsed values of the completed (matched) exits of f.
CompletedTime(f) ==
    LET ofF == {sh \in DOMAIN shapeTime : sh[Len(sh)] = f}
    IN  SumOver(ofF, shapeTime)

\* The ids a JSON report lists, ascending.
ListedIds == {i \in FuncIds : i < g_num_functions /\ g_profiles[i].name # NULL}
RECURSIVE Ascending(_)
Ascending(S) ==
    IF S = {} THEN <<>> ELSE <<Min(S)>> \o Ascending(S \ {Min(S)})

\* ---- C14: every initialize call after the first one of the process, also
\* one made after finalize has run, leaves the function table, the function
\* count, the output path and the registered exit handlers unchanged.
C14_InitializeIdempotent ==
    [][(IsInitStep /\ inits >= 1)
        => /\ g_profiles' = g_profiles
           /\ g_num_functions' = g_num_functions
           /\ g_output_path' = g_output_path
           /\ atexit_handlers' = atexit_handlers]_vars

\* ---- C15: once a finalize has run, a further finalize with no initialize
\* in between writes no file, prints nothing and changes no state; so when
\* the program was initialized once and has exited, the reports have been
\* produced exactly once, whether or not finalize was also called by hand.
C15_FinalizeIdempotent ==
    /\ [](exit_pending = 0 /\ inits = 1 => ReportRuns = 1)
    /\ [][(IsFinalizeStep /\ inits >= 1 /\ g_initialized = 0)
            => /\ files' = files
               /\ stderr' = stderr
               /\ TablesUnchanged
               /\ g_output_path' = g_output_path
               /\ atexit_handlers' = atexit_handlers
               /\ \A t \in Threads : StackUnchanged(t)]_vars

\* finalize by hand, then exit(): the handler has run and found nothing to do.
C15_Witness ==
    /\ exit_pending = 0 /\ inits = 1
    /\ lastCall.op = "finalize" /\ lastCall.outcome = "noop"
    /\ finPassed = 1 /\ ReportRuns = 1
    /\ g_output_path \in DOMAIN files
    /\ g_profiles[0].call_count = 1

\* ---- C19: a finalize that produces the reports (profiler initialized once,
\* no enter dropped at the maximum depth) changes no table and no thread's
\* stack; the JSON entry of every listed function has the number of enter
\* calls made for it, calls still open included, and the time of its
\* completed exits only; the total is the time of the completed exits; the
\* folded lines carry the times of the completed exits of their shapes.
C19_FinalizeIgnoresOpenCalls ==
    [][(IsReportingStep /\ inits = 1 /\ ~overDepth)
        => /\ g_profiles' = g_profiles
           /\ g_stack_samples' = g_stack_samples
           /\ g_num_stack_samples' = g_num_stack_samples
           /\ \A t \in Threads : StackUnchanged(t)
           /\ fopenResult'.json =>
                 LET report == files'[g_output_path]
                     ids == Ascending(ListedIds)
                 IN  /\ Len(report.functions) = Len(ids)
                     /\ \A k \in 1 .. Len(ids) :
                          /\ report.functions[k].calls = enterCalls[ids[k]]
                          /\ report.functions[k].time_ms
                                = TimeMs(CompletedTime(ids[k]))
                     /\ report.total_time_ms
                          = TimeMs(SumOver(ListedIds,
                                          [i \in FuncIds |-> CompletedTime(i)]))
           /\ fopenResult'.folded =>
                 LET report == files'[FoldedPath(g_output_path)]
                 IN  \A k \in 1 .. Len(report.lines) :
                        \E sh \in DOMAIN shapeTime :
                           report.lines[k].count = SampleCount(shapeTime[sh])
       ]_vars

\* Function 0 has been open for 30 us when finalize runs; function 1 was
\* called inside it and has returned.
C19_Witness ==
    /\ lastCall.op = "finalize" /\ lastCall.outcome = "done"
    /\ inits = 1
    /\ tls_stack_depth["T1"] = 1
    /\ tls_call_stack["T1"][1] = CallStackEntry(0, 0)
    /\ now = Us(30)
    /\ g_output_path \in DOMAIN files
    /\ files[g_output_path].functions =
          <<[name |-> "A", calls |-> 1, time_ms |-> 0, percent |-> 0],
            [name |-> "B", calls |-> 1, time_ms |-> 30, percent |-> 10000]>>
    /\ FoldedPath(g_output_path) \in DOMAIN files
    /\ files[FoldedPath(g_output_path)].lines =
          <<[stack |-> <<"A", ";", "B">>, count |-> 30]>>

\* ---- C20: in a finalize that produces the reports, a folded file that
\* cannot be opened is left alone with a warning and the JSON report is
\* still written when its file opens; a JSON file that cannot be opened is
\* left alone with a warning and the folded file, when it opened, has been
\* written; either way finalize returns with the flag cleared.
C20_ArtifactsFailIndependently ==
    [][IsReportingStep
        => LET folded_path == FoldedPath(g_output_path)
               untouched(path) ==
                   /\ (path \in DOMAIN files') = (path \in DOMAIN files)
                   /\ path \in DOMAIN files => files'[path] = files[path]
           IN  /\ g_initialized' = 0
               /\ ~fopenResult'.folded =>
                     /\ Printed[1] = WarnFolded
                     /\ folded_path # g_output_path => untouched(folded_path)
                     /\ fopenResult'.json =>
                           /\ g_output_path \in DOMAIN files'
                           /\ files'[g_output_path] = JsonReport
               /\ ~fopenResult'.json =>
                     /\ Printed[2] = WarnJson
                     /\ folded_path # g_output_path => untouched(g_output_path)
                     /\ fopenResult'.folded =>
                           /\ folded_path \in DOMAIN files'
                           /\ files'[folded_path] = FoldedReport
       ]_vars

\* Two finalize calls, the first without the folded file, the second
\* without the JSON file: each wrote the other artifact.
C20_Witness ==
    /\ stderr = <<WarnFolded, ProfileSummary, FoldedWritten, WarnJson>>
    /\ g_output_path \in DOMAIN files
    /\ FoldedPath(g_output_path) \in DOMAIN files
    /\ files[g_output_path].kind = "json"
    /\ files[FoldedPath(g_output_path)].kind = "folded"

C18_NameAssignedOnce ==
    [][\A t \in Threads, f \in FuncIds :
        (/\ IsEnterStep(t, f) /\ lastCall'.outcome = "pushed"
         /\ g_profiles[f].call_count > 0
         /\ lastName' # g_profiles[f].name)
        => g_profiles'[f].name = g_profiles[f].name]_vars

\* ---- C21: a finalize that produces the reports and cannot open the JSON
\* file still prints the console summary.
C21_SummaryWithoutJson ==
    [][(IsReportingStep /\ ~fopenResult'.json)
        => \E k \in DOMAIN Printed : Printed[k] = ProfileSummary]_vars

\* ---- helpers of the claims about the folded file
\* The samples the folded writer prints, in table order.
PrintedSamples ==
    Ascending({i \in SampleIdx :
                  i < g_num_stack_samples /\ g_stack_samples[i].time_ns # 0})

\* The registered names of a sample's ids, outermost first.
RECURSIVE NamesFrom(_, _)
NamesFrom(sample, j) ==
    IF j >= sample.depth THEN <<>>
    ELSE LET name == g_profiles[sample.func_ids[j]].name
         IN  (IF name = NULL THEN <<>> ELSE <<name>>)
             \o NamesFrom(sample, j + 1)

IsName(token) == token # ";"

\* The names with one ';' between two neighbours.
RECURSIVE Joined(_)
Joined(names) ==
    IF Len(names) <= 1 THEN names
    ELSE <<names[1], ";">> \o Joined(Tail(names))

\* ---- C22: the folded file has one line per stored sample with a time
\* other than 0, in table order, and none for a sample with time 0; the
\* count of a line is the sample's nanoseconds divided by 1000, rounded
\* down, and 1 when that is 0.
C22_FoldedLinesAndCounts ==
    [][(IsReportingStep /\ fopenResult'.folded)
        => LET report == files'[FoldedPath(g_output_path)]
               kept == PrintedSamples
           IN  /\ Len(report.lines) = Len(kept)
               /\ \A k \in 1 .. Len(kept) :
                    LET sample == g_stack_samples[kept[k]]
                        us == sample.time_ns \div 1000
                    IN  /\ report.lines[k].count = (IF us = 0 THEN 1 ELSE us)
                        /\ SelectSeq(report.lines[k].stack, IsName)
                             = NamesFrom(sample, 0)]_vars

\* The table holds a sample with time 0 and then one with 999 ns: the file
\* has one line, with count 1.
C22_Witness ==
    /\ lastCall.op = "finalize" /\ lastCall.outcome = "done"
    /\ g_num_stack_samples = 2
    /\ g_stack_samples[0].time_ns = 0
    /\ g_stack_samples[1].time_ns = 999
    /\ FoldedPath(g_output_path) \in DOMAIN files
    /\ Len(files[FoldedPath(g_output_path)].lines) = 1
    /\ files[FoldedPath(g_output_path)].lines[1].count = 1

\* ---- C23: the name list of a folded line has the registered names of the
\* sample's ids, outermost first, with one ';' between two neighbours: no
\* ';' at the start or the end and no two in a row, also when the outermost
\* id has no name.
C23_NoStraySeparator ==
    [][(IsReportingStep /\ fopenResult'.folded)
        => LET report == files'[FoldedPath(g_output_path)]
               kept == PrintedSamples
           IN  /\ Len(report.lines) = Len(kept)
               /\ \A k \in 1 .. Len(kept) :
                    report.lines[k].stack
                       = Joined(NamesFrom(g_stack_samples[kept[k]], 0))]_vars

\* ---- C24: the "functions" array of the JSON report has one entry for
\* every id with a registered name, in ascending id order, and none for an
\* id without one; the calls value of an entry is the function's call count.
C24_OneEntryPerNamedFunction ==
    [][(IsReportingStep /\ fopenResult'.json)
        => LET report == files'[g_output_path]
               ids == Ascending({i \in FuncIds : g_profiles[i].name # NULL})
           IN  /\ Len(report.functions) = Len(ids)
               /\ \A k \in 1 .. Len(ids) :
                    /\ report.functions[k].name = g_profiles[ids[k]].name
                    /\ report.functions[k].calls
                          = g_profiles[ids[k]].call_count]_vars

\* ---- C25: the total of the JSON report, in nanoseconds before it is
\* formatted, is the sum of the cumulative times of the functions the
\* "functions" array lists; every listed function has a registered name and
\* a table entry without a name adds nothing to the total.
C25_TotalIsSumOfListed ==
    [][(IsReportingStep /\ fopenResult'.json)
        => LET report == files'[g_output_path]
               ids == Ascending(ListedIds)
               total == SumOver(ListedIds,
                                [i \in FuncIds |-> g_profiles[i].total_time_ns])
           IN  /\ Len(report.functions) = Len(ids)
               /\ \A k \in 1 .. Len(ids) :
                    /\ report.functions[k].name = g_profiles[ids[k]].name
                    /\ report.functions[k].name # NULL
                    /\ report.functions[k].percent
                          = Percent(g_profiles[ids[k]].total_time_ns, total)
               /\ TotalTime(g_profiles, g_num_functions, 0) = total
               /\ report.total_time_ms = TimeMs(total)]_vars

\* Function 0 has 2500 ns and no name, function 1 has 1499 ns and the name
\* "B": the report lists B alone, with all of the total.
C25_Witness ==
    /\ lastCall.op = "finalize" /\ lastCall.outcome = "done"
    /\ g_num_functions > 1
    /\ g_profiles[0] = [name |-> NULL, call_count |-> 1, total_time_ns |-> 2500]
    /\ g_profiles[1] = [name |-> "B", call_count |-> 1, total_time_ns |-> 1499]
    /\ g_output_path \in DOMAIN files
    /\ files[g_output_path].functions =
          <<[name |-> "B", calls |-> 1, time_ms |-> 1, percent |-> 10000]>>
    /\ files[g_output_path].total_time_ms = 1

\* ---- C26: the folded file is written at the output path with its ".json"
\* suffix replaced by ".folded" when the path ends in ".json", and at the
\* whole output path followed by ".folded" otherwise, also when ".json"
\* occurs before the end of the path (for a derived path that fits the
\* path buffer).
C26_SuffixReplacedOrAppended ==
    [][LET path == g_output_path
           n == Len(path) - Len(DotJson)
           atEnd == n >= 0 /\ SubSeq(path, n + 1, Len(path)) = DotJson
           expected == IF atEnd THEN SubSeq(path, 1, n) \o DotFolded
                       ELSE path \o DotFolded
       IN  (/\ IsReportingStep
            /\ fopenResult'.folded
            /\ Len(expected) < OUTPUT_PATH_SIZE)
           => /\ expected \in DOMAIN files'
              /\ files'[expected].kind = "folded"]_vars

\* ---- helpers of the claims about a matched exit
\* exit(f) of thread t finds the profiler initialized and f in the top frame.
IsMatchedExit(t, f) ==
    /\ IsExitStep(t, f)
    /\ g_initialized = 1
    /\ tls_stack_depth[t] > 0
    /\ TopFrame(t).func_id = f

\* The step pops the top frame and the last shape element of thread t.
Popped(t) ==
    /\ tls_stack_depth'[t] = tls_stack_depth[t] - 1
    /\ tls_call_stack'[t]
          = SubSeq(tls_call_stack[t], 1, Len(tls_call_stack[t]) - 1)
    /\ tls_current_stack'[t]
          = SubSeq(tls_current_stack[t], 1, Len(tls_current_stack[t]) - 1)

ShapeAfterPop(t) == SubSeq(Shape(t), 1, Len(Shape(t)) - 1)

\* ---- C27 (as stated): a matched exit adds elapsed = now - entry timestamp
\* of the top frame to the function's cumulative time and to the sample of
\* the thread's shape before the pop, whose innermost element is the exiting
\* function; the sample of the shape after the pop receives nothing; the
\* frame and the last shape element are popped.
C27_MatchedExitRecordsThenPops ==
    [][\A t \in Threads, f \in FuncIds :
        IsMatchedExit(t, f)
        => LET elapsed == now' - TopFrame(t).entry_time
           IN  /\ g_profiles'[f].total_time_ns
                     = g_profiles[f].total_time_ns + elapsed
               /\ Shape(t)[Len(Shape(t))] = f
               /\ SamplesWith(g_stack_samples', g_num_stack_samples',
                              Shape(t)) # {}
               /\ TimeOfShape(g_stack_samples', g_num_stack_samples', Shape(t))
                     = TimeOfShape(g_stack_samples, g_num_stack_samples,
                                   Shape(t)) + elapsed
               /\ TimeOfShape(g_stack_samples', g_num_stack_samples',
                              ShapeAfterPop(t))
                     = TimeOfShape(g_stack_samples, g_num_stack_samples,
                                   ShapeAfterPop(t))
               /\ Popped(t)]_vars

\* C27 (amended): as above when the shape before the pop is already in the
\* sample table or the table is not full; when the table is full and the
\* shape is new, the function still receives elapsed, no sample changes and
\* the frame is popped.
C27_MatchedExitRecordsUnlessTableFull ==
    [][\A t \in Threads, f \in FuncIds :
        IsMatchedExit(t, f)
        => LET elapsed == now' - TopFrame(t).entry_time
           IN  /\ g_profiles'[f].total_time_ns
                     = g_profiles[f].total_time_ns + elapsed
               /\ Shape(t)[Len(Shape(t))] = f
               /\ IF \/ SamplesWith(g_stack_samples, g_num_stack_samples,
                                    Shape(t)) # {}
                     \/ g_num_stack_samples < MAX_STACK_SAMPLES
                  THEN /\ SamplesWith(g_stack_samples', g_num_stack_samples',
                                      Shape(t)) # {}
                       /\ TimeOfShape(g_stack_samples', g_num_stack_samples',
                                      Shape(t))
                             = TimeOfShape(g_stack_samples,
                                           g_num_stack_samples, Shape(t))
                               + elapsed
                       /\ TimeOfShape(g_stack_samples', g_num_stack_samples',
                                      ShapeAfterPop(t))
                             = TimeOfShape(g_stack_samples,
                                           g_num_stack_samples,
                                           ShapeAfterPop(t))
                  ELSE /\ g_stack_samples' = g_stack_samples
                       /\ g_num_stack_samples' = g_num_stack_samples
               /\ Popped(t)]_vars

\* Function 1 was called inside function 0 and has returned after 30 us: the
\* sample (0, 1) holds them, the thread's shape is (0) and no sample of the
\* shape (0) exists.
C27_Witness ==
    /\ lastCall.op = "exit" /\ lastCall.outcome = "matched"
    /\ lastCall.func_id = 1 /\ lastCall.elapsed = Us(30)
    /\ tls_current_stack["T1"] = <<0>>
    /\ g_profiles[1].total_time_ns = Us(30)
    /\ TimeOfShape(g_stack_samples, g_num_stack_samples, <<0, 1>>) = Us(30)
    /\ SamplesWith(g_stack_samples, g_num_stack_samples, <<0>>) = {}

\* ---- C28: under any interleaving of the calls of the threads, whenever
\* no call is in progress no two samples of the table have the same shape
\* (the same length and the same ids elementwise).
C28_OneSamplePerShapeConcurrently ==
    (\A t \in Threads : pc[t] = "idle")
    => \A i, j \in SampleIdx :
          (i < j /\ j < g_num_stack_samples)
          => ShapeOfSample(g_stack_samples[i])
                # ShapeOfSample(g_stack_samples[j])

\* ---- C29: one exit changes at most one sample, and only a sample of the
\* exiting thread's shape before the pop: a sample that was already stored
\* keeps its ids and its depth, a new one takes the first free slot.  The
\* samples of all other shapes are unchanged, also those that hold the
\* exiting function at another depth or below other callers.  The exit
\* changes the cumulative time of no function but the one exiting, and no
\* name and no call count.
C29_ShapesAccumulateIndependently ==
    [][\A t \in Threads, f \in FuncIdArgs :
        IsExitStep(t, f)
        => LET changed == {i \in SampleIdx :
                              g_stack_samples'[i] # g_stack_samples[i]}
           IN  /\ Cardinality(changed) <= 1
               /\ \A i \in changed :
                    /\ ShapeOfSample(g_stack_samples'[i]) = Shape(t)
                    /\ IF i < g_num_stack_samples
                       THEN /\ g_stack_samples'[i].func_ids
                                 = g_stack_samples[i].func_ids
                            /\ g_stack_samples'[i].depth
                                 = g_stack_samples[i].depth
                       ELSE i = g_num_stack_samples
               /\ \A g \in FuncIds :
                    /\ g # f => g_profiles'[g] = g_profiles[g]
                    /\ g_profiles'[g].name = g_profiles[g].name
                    /\ g_profiles'[g].call_count
                          = g_profiles[g].call_count]_vars

\* Function 0 ran at the top level for 30 us and then inside function 1 for
\* 30 us: the samples (0) and (1, 0) hold 30 us each.
C29_Witness ==
    /\ lastCall.op = "exit" /\ lastCall.outcome = "matched"
    /\ lastCall.func_id = 0
    /\ tls_current_stack["T1"] = <<1>>
    /\ g_num_stack_samples = 2
    /\ ShapeOfSample(g_stack_samples[0]) = <<0>>
    /\ g_stack_samples[0].time_ns = Us(30)
    /\ ShapeOfSample(g_stack_samples[1]) = <<1, 0>>
    /\ g_stack_samples[1].time_ns = Us(30)
    /\ g_profiles[0].total_time_ns = Us(60)

\* ---- C30: an enter or exit of thread t leaves the call stack, the shape
\* vector and the depth of every other thread unchanged, and what it does to
\* the stack of t is decided by the stack of t alone: an enter of a function
\* id in an initialized profiler pushes when t is below the maximum depth,
\* an exit pops when t has a frame, whatever the other threads' stacks
\* hold.  initialize and finalize change no thread's stack.
C30_StacksOwnedByTheirThread ==
    [][/\ \A t \in Threads, f \in FuncIds :
            /\ (IsEnterStep(t, f) \/ IsExitStep(t, f))
                  => \A u \in Threads \ {t} : StackUnchanged(u)
            /\ (IsEnterStep(t, f) /\ g_initialized = 1
                   /\ tls_stack_depth[t] < MAX_CALL_DEPTH)
                  => /\ tls_current_stack'[t] = Append(tls_current_stack[t], f)
                     /\ tls_call_stack'[t]
                           = Append(tls_call_stack[t], CallStackEntry(f, now'))
                     /\ tls_stack_depth'[t] = tls_stack_depth[t] + 1
            /\ (IsExitStep(t, f) /\ g_initialized = 1
                   /\ tls_stack_depth[t] > 0)
                  => Popped(t)
       /\ (IsInitStep \/ IsFinalizeStep)
            => \A u \in Threads : StackUnchanged(u)]_vars

\* T1 has two open calls, T2 entered function 0 and has left it again.
C30_Witness ==
    /\ lastCall.op = "exit" /\ lastCall.thread = "T2"
    /\ lastCall.outcome = "matched"
    /\ tls_current_stack["T1"] = <<0, 1>>
    /\ tls_stack_depth["T1"] = MAX_CALL_DEPTH
    /\ tls_stack_depth["T2"] = 0
    /\ g_profiles[0].call_count = 2

\* ---- helpers of the claim about the order of the artifacts
\* The step takes thread t from one place of finalize to another.
FinStep(t, from, to) == pc[t] = from /\ pc'[t] = to

FileUntouched(path) ==
    IF path \in DOMAIN files
    THEN path \in DOMAIN files' /\ files'[path] = files[path]
    ELSE path \notin DOMAIN files'

\* ---- C31: a finalize call produces its artifacts in a fixed order.  The
\* step of the folded file writes that file whole, prints its message and
\* leaves the JSON file alone; the JSON report is opened only after that
\* step, and its step leaves the folded file alone and prints nothing; the
\* summary is printed only after the step of the JSON report, and its step
\* touches no file.
C31_ArtifactsInFixedOrder ==
    [][\A t \in Threads :
        /\ (pc'[t] = "fin_json" /\ pc[t] # "fin_json")
              => /\ pc[t] = "fin_folded"
                 /\ FileUntouched(g_output_path)
                 /\ FoldedPath(g_output_path) \in DOMAIN files'
                 /\ files'[FoldedPath(g_output_path)] = FoldedReport
                 /\ Printed = <<FoldedWritten>>
        /\ (pc'[t] = "fin_summary" /\ pc[t] # "fin_summary")
              => /\ pc[t] = "fin_json"
                 /\ FileUntouched(FoldedPath(g_output_path))
                 /\ g_output_path \in DOMAIN files'
                 /\ files'[g_output_path] = JsonReport
                 /\ Printed = <<>>
        /\ FinStep(t, "fin_summary", "idle")
              => /\ files' = files
                 /\ Printed = <<ProfileSummary>>
        /\ (Printed # <<>> /\ Printed[Len(Printed)] = ProfileSummary)
              => \E u \in Threads : FinStep(u, "fin_summary", "idle")]_vars

\* The folded file of the first finalize is written, with the line of one
\* completed call, and the JSON report is not opened yet.
C31_Witness ==
    /\ pc["T1"] = "fin_json"
    /\ pc["T2"] = "idle"
    /\ finPassed = 1
    /\ g_output_path \notin DOMAIN files
    /\ FoldedPath(g_output_path) \in DOMAIN files
    /\ Len(files[FoldedPath(g_output_path)].lines) = 1
    /\ stderr = <<FoldedWritten>>

\* ---- C36: the total written in a JSON report equals the sum of the times
\* of the functions written in that report, also when an exit that passed
\* the check of g_initialized before finalize cleared it completes while the
\* report is written.
C36_TotalMatchesEntriesUnderRace ==
    g_output_path \in DOMAIN files
    => LET report == files[g_output_path]
       IN  report.total_time_ms
              = SumOver(DOMAIN report.functions,
                        [k \in DOMAIN report.functions |->
                            report.functions[k].time_ms])

\* ---- helpers of the claim about termination
\* A step of a call that thread t has started.
StepOf(t) ==
    \/ Enter_LoadCount(t)
    \/ Enter_StoreCount(t, 0)
    \/ Exit_LoadTime(t)
    \/ Exit_StoreTime(t)
    \/ Sample_Scan(t)
    \/ Sample_CheckCapacity(t)
    \/ Sample_LoadCount(t)
    \/ Sample_StoreCount(t)
    \/ Sample_WriteDepth(t)
    \/ Sample_WriteIds(t)
    \/ Sample_LoadTime(t)
    \/ Sample_StoreTime(t)
    \/ Fin_Clear(t)
    \/ Fin_WriteFolded(t, TRUE)
    \/ Fin_JsonTotal(t)
    \/ Fin_JsonEntries(t)
    \/ Fin_PrintSummary(t)

\* The largest number of steps a call still takes from each place.
StepsLeft ==
    [idle |-> 0,
     enter_store_count |-> 1, enter_load_count |-> 2,
     sample_store_time |-> 1, sample_load_time |-> 2, sample_write_ids |-> 3,
     sample_write_depth |-> 4, sample_store_count |-> 5,
     sample_load_count |-> 6, sample_check_capacity |-> 7, sample_scan |-> 8,
     exit_store_time |-> 9, exit_load_time |-> 10,
     fin_summary |-> 1, fin_json_entries |-> 2, fin_json |-> 3,
     fin_folded |-> 4, fin_clear |-> 5]

\* ---- C32: no hook blocks.  A thread inside a call can always take its
\* next step, wherever the other threads stand; every step of a call brings
\* it closer to its return, so no call loops or waits; the scan of the
\* sample table returns an index below the sample count; and a thread that
\* keeps taking its steps returns from every call, also when the other
\* threads never move again.
C32_NoHookBlocks ==
    /\ [](\A t \in Threads : pc[t] # "idle" => ENABLED StepOf(t))
    /\ [][\A t \in Threads :
            /\ (pc[t] # "idle" /\ pc'[t] # pc[t])
                  => StepsLeft[pc'[t]] < StepsLeft[pc[t]]
            /\ (pc[t] = "sample_scan" /\ pc'[t] # pc[t])
                  => loc'[t].idx < g_num_stack_samples]_vars
    /\ \A t \in Threads :
          WF_vars(StepOf(t)) => ((pc[t] # "idle") ~> (pc[t] = "idle"))

\* T2 stands in the middle of finalize, where it has added up a total of
\* 0; T1 has since stored its 30 us, created its sample and returned from
\* its exit.
C32_Witness ==
    /\ pc["T2"] = "fin_json_entries"
    /\ loc["T2"].tmp = 0
    /\ pc["T1"] = "idle"
    /\ tls_stack_depth["T1"] = 0
    /\ g_profiles[0].total_time_ns = Us(30)
    /\ g_num_stack_samples = 1
    /\ g_stack_samples[0].time_ns = Us(30)

\* ---- helpers of the claim about function times and sample times
\* The stored samples whose innermost id is f.
SamplesEndingIn(f) ==
    {i \in SampleIdx : /\ i < g_num_stack_samples
                       /\ g_stack_samples[i].depth > 0
                       /\ g_stack_samples[i].func_ids[
                              g_stack_samples[i].depth - 1] = f}
TimeOfSample == [i \in SampleIdx |-> g_stack_samples[i].time_ns]

\* No matched exit has found the table full: every shape an exit has
\* recorded time for has its sample.
NoSampleDropped ==
    \A sh \in DOMAIN shapeTime :
        SamplesWith(g_stack_samples, g_num_stack_samples, sh) # {}

\* ---- C33: on one thread, after an initialize call and before the next
\* finalize, while no sample update has been dropped because the table was
\* full, the cumulative time of every function equals the sum of the times
\* of the samples whose innermost id is that function, whatever enter and
\* exit calls have been made.
C33_FunctionTimeIsSumOfItsSamples ==
    (g_initialized = 1 /\ NoSampleDropped)
        => \A f \in FuncIds :
               g_profiles[f].total_time_ns
                   = SumOver(SamplesEndingIn(f), TimeOfSample)

\* The same equality between the first initialize call of the process and
\* the first finalize, where the sample table started empty.
C33_FirstRunTimeIsSumOfItsSamples ==
    (inits = 1 /\ g_initialized = 1 /\ NoSampleDropped)
        => \A f \in FuncIds :
               g_profiles[f].total_time_ns
                   = SumOver(SamplesEndingIn(f), TimeOfSample)

\* Function 0 has returned once from the top level and once from inside
\* function 1, 30 us each: two samples end in 0 and its time is 60 us.
C33_Witness ==
    /\ inits = 1 /\ g_initialized = 1 /\ NoSampleDropped
    /\ g_num_stack_samples = 2
    /\ SamplesEndingIn(0) = {0, 1}
    /\ g_stack_samples[0].time_ns = Us(30)
    /\ g_stack_samples[1].time_ns = Us(30)
    /\ g_profiles[0].total_time_ns = Us(60)

\* ---- C34: in every reachable state and for every thread, the shape vector
\* holds at each position below the current depth the function id of the
\* call-stack entry at that position.
C34_ShapeMirrorsCallStack ==
    \A t \in Threads :
        /\ tls_stack_depth[t] \in 0 .. MAX_CALL_DEPTH
        /\ \A k \in 1 .. tls_stack_depth[t] :
               tls_current_stack[t][k] = tls_call_stack[t][k].func_id

\* T1 is inside function 0 called from function 1 while T2 is inside
\* function 0.
C34_Witness ==
    /\ tls_stack_depth["T1"] = 2
    /\ tls_call_stack["T1"][1].func_id = 1
    /\ tls_call_stack["T1"][2].func_id = 0
    /\ tls_current_stack["T1"] = <<1, 0>>
    /\ tls_stack_depth["T2"] = 1
    /\ tls_current_stack["T2"] = <<0>>

\* ---- helpers of the claim about samples written while others scan
\* Thread u has published slot i in the count and has not finished writing
\* its depth and ids.
IsWriting(u, i) ==
    /\ pc[u] \in {"sample_write_depth", "sample_write_ids"}
    /\ loc[u].idx = i

\* Thread t takes this step from the place `from` of its call.
StepFrom(t, from) == pc[t] = from /\ pc'[t] # from

\* ---- C35: under any interleaving of the exits of the threads, (1) the
\* scan of a thread never returns a slot that another thread has published
\* in the count and is still writing; (2) a thread adds its elapsed time
\* only to a slot whose shape, as stored or as its creator is about to
\* finish writing it, is the adding thread's own shape; (3) the creation of
\* a sample never sets a time to zero to which time was already added.
C35_SamplesIsolatedUnderRace ==
    [][\A t \in Threads :
        /\ (StepFrom(t, "sample_scan") /\ loc'[t].idx >= 0)
              => \A u \in Threads \ {t} : ~IsWriting(u, loc'[t].idx)
        /\ (StepFrom(t, "sample_store_time") /\ loc[t].idx \in SampleIdx)
              => /\ ShapeOfSample(g_stack_samples'[loc[t].idx]) = Shape(t)
                 /\ \A u \in Threads \ {t} :
                       IsWriting(u, loc[t].idx) => Shape(u) = Shape(t)
        /\ (StepFrom(t, "sample_write_ids") /\ loc[t].idx \in SampleIdx)
              => g_stack_samples[loc[t].idx].time_ns = 0]_vars

\* All calls have returned: the 30 us of function 0, which T2 ran at the
\* top level, stand in the only sample, and T1 has finished writing that
\* sample with its own shape, function 1 at the top level.
C35_Witness ==
    /\ \A t \in Threads : pc[t] = "idle" /\ tls_stack_depth[t] = 0
    /\ g_num_stack_samples = 1
    /\ ShapeOfSample(g_stack_samples[0]) = <<1>>
    /\ g_stack_samples[0].time_ns = Us(30)
    /\ g_profiles[0].total_time_ns = Us(30)
    /\ g_profiles[1].total_time_ns = 0
    /\ g_profiles[1].call_count = 1

\* ---- C37: for every output path initialize has accepted, of any length
\* below the size of the path buffer, finalize derives a folded path that
\* fits the folded-path buffer with its terminator and writes no byte
\* outside that buffer, also when the ".json" it replaces stands at the end
\* of a path of the greatest accepted length.
C37_FoldedPathFitsItsBuffer ==
    [][IsReportingStep
       => /\ Len(g_output_path) < OUTPUT_PATH_SIZE
          /\ Len(FoldedPath(g_output_path)) < OUTPUT_PATH_SIZE
          /\ oob' = oob]_vars

\* finalize has run with an accepted path of the greatest length that ends
\* in ".json": the path with ".folded" in its place is two bytes longer
\* than the buffer holds.
C37_Witness ==
    /\ lastCall.op = "finalize" /\ lastCall.outcome = "done"
    /\ g_output_path = JsonPathOfLength(OUTPUT_PATH_SIZE - 1)
    /\ Len(FoldedPath(g_output_path)) + 1 = OUTPUT_PATH_SIZE + 2
    /\ oob

====
